---- MODULE Spec2Model ----
(***************************************************************************)
(* PR diff processing (packages/backend/app/algo/pr_processing.py):        *)
(* parse_diff, format_diff_for_prompt, get_pr_diff_summary and             *)
(* split_diff_for_chunks, modelled as state machines over a heap of        *)
(* FilePatch and DiffHunk objects.  Python strings are TLA+ strings; the   *)
(* regular expressions, str methods and format specs the code uses are     *)
(* operators that compute what the Python computes.                        *)
(***************************************************************************)
EXTENDS Integers, Sequences, FiniteSets, TLC

VARIABLES
    frame,        \* frame[c]: the locals of caller c's running call
    patch_objs,   \* heap of FilePatch objects; a reference is an index, 0 is None
    hunk_objs     \* heap of DiffHunk objects; a reference is an index, 0 is None

vars == <<frame, patch_objs, hunk_objs>>

(***************************************************************************)
(* Bounds of the model.                                                    *)
(***************************************************************************)
\* longest diff text, in lines, built from lines of any shape in any order
MaxLines == 3
\* longest hunk body, in lines, of the diffs that open one file and one hunk
MaxBody == 4
\* most file diffs in the texts built of whole file diffs
MaxFiles == 3
\* longest list of patches handed to split_diff_for_chunks
MaxPatches == 3

Callers == {1, 2}

(***************************************************************************)
(* Optional values: None is the empty tuple, a present value v is <<v>>.   *)
(* An object reference is an index into its heap, None being 0.            *)
(***************************************************************************)
None == <<>>
Some(v) == <<v>>
NoneRef == 0

(***************************************************************************)
(* Python str operations.                                                  *)
(***************************************************************************)
CharAt(s, i) == SubSeq(s, i, i)

StartsWith(s, p) == Len(s) >= Len(p) /\ SubSeq(s, 1, Len(p)) = p

EndsWith(s, p) == Len(s) >= Len(p) /\ SubSeq(s, Len(s) - Len(p) + 1, Len(s)) = p

\* `sub in s`
Contains(s, sub) ==
    \E i \in 1..(Len(s) - Len(sub) + 1) : SubSeq(s, i, i + Len(sub) - 1) = sub

\* s[1:]
DropFirst(s) == SubSeq(s, 2, Len(s))

Whitespace == {" ", "\t", "\n", "\r"}

\* `not s.strip()`: s holds nothing but whitespace
StripIsEmpty(s) == \A i \in 1..Len(s) : CharAt(s, i) \in Whitespace

\* the position of the first "\n" at or after i, Len(s) + 1 if there is none
RECURSIVE LineEnd(_, _)
LineEnd(s, i) ==
    IF i > Len(s) \/ CharAt(s, i) = "\n" THEN i ELSE LineEnd(s, i + 1)

\* s.split("\n"), from position start on
RECURSIVE SplitFrom(_, _)
SplitFrom(s, start) ==
    LET end == LineEnd(s, start)
    IN  IF end > Len(s) THEN <<SubSeq(s, start, Len(s))>>
        ELSE <<SubSeq(s, start, end - 1)>> \o SplitFrom(s, end + 1)

SplitLines(s) == SplitFrom(s, 1)

\* "\n".join(parts)
RECURSIVE JoinLines(_)
JoinLines(parts) ==
    IF Len(parts) = 0 THEN ""
    ELSE IF Len(parts) = 1 THEN parts[1]
    ELSE parts[1] \o "\n" \o JoinLines(Tail(parts))

Digits == <<"0", "1", "2", "3", "4", "5", "6", "7", "8", "9">>

IsDigit(ch) == \E d \in 1..10 : Digits[d] = ch

DigitVal(ch) == (CHOOSE d \in 1..10 : Digits[d] = ch) - 1

\* int(s) for a string of decimal digits
RECURSIVE IntOf(_)
IntOf(s) ==
    IF Len(s) = 0 THEN 0
    ELSE 10 * IntOf(SubSeq(s, 1, Len(s) - 1)) + DigitVal(CharAt(s, Len(s)))

\* str(n) for n >= 0
RECURSIVE StrOf(_)
StrOf(n) ==
    IF n < 10 THEN Digits[n + 1]
    ELSE StrOf(n \div 10) \o Digits[(n % 10) + 1]

\* the end of the run of digits that starts at position i (i - 1 if there is none)
RECURSIVE DigitsEnd(_, _)
DigitsEnd(s, i) ==
    IF i <= Len(s) /\ IsDigit(CharAt(s, i)) THEN DigitsEnd(s, i + 1) ELSE i - 1

\* the end of the run of whitespace that starts at position i
RECURSIVE SpaceEnd(_, _)
SpaceEnd(s, i) ==
    IF i <= Len(s) /\ CharAt(s, i) \in Whitespace THEN SpaceEnd(s, i + 1) ELSE i - 1

(***************************************************************************)
(* The regular expressions of the parser.  A match is the tuple of its     *)
(* groups (an optional group that took no part is None); no match is       *)
(* NoMatch.                                                                *)
(***************************************************************************)
NoMatch == <<>>

\* ^diff --git a/(.*) b/(.*)$   (the first group is greedy: the last " b/" splits)
FileHeaderMatch(line) ==
    LET pre  == "diff --git a/"
        rest == SubSeq(line, Len(pre) + 1, Len(line))
        cuts == {j \in 1..(Len(rest) - 2) : SubSeq(rest, j, j + 2) = " b/"}
    IN  IF ~StartsWith(line, pre) \/ cuts = {} THEN NoMatch
        ELSE LET j == CHOOSE k \in cuts : \A m \in cuts : m <= k
             IN  <<SubSeq(rest, 1, j - 1), SubSeq(rest, j + 3, Len(rest))>>

\* (\d+)(?:,(\d+))? at position i: <<first number, optional second, next position>>
NumberPair(s, i) ==
    LET e1 == DigitsEnd(s, i)
        e2 == DigitsEnd(s, e1 + 2)
    IN  IF e1 < i THEN NoMatch
        ELSE IF CharAt(s, e1 + 1) = "," /\ e2 >= e1 + 2
             THEN <<SubSeq(s, i, e1), Some(SubSeq(s, e1 + 2, e2)), e2 + 1>>
             ELSE <<SubSeq(s, i, e1), None, e1 + 1>>

\* ^@@ -(\d+)(?:,(\d+))? \+(\d+)(?:,(\d+))? @@(?:\s+(.*))?$
HunkHeaderMatch(line) ==
    IF ~StartsWith(line, "@@ -") THEN NoMatch
    ELSE LET old == NumberPair(line, 5)
         IN  IF old = NoMatch \/ SubSeq(line, old[3], old[3] + 1) # " +" THEN NoMatch
             ELSE LET new == NumberPair(line, old[3] + 2)
                  IN  IF new = NoMatch \/ SubSeq(line, new[3], new[3] + 2) # " @@"
                      THEN NoMatch
                      ELSE LET t  == new[3] + 3
                               se == SpaceEnd(line, t)
                           IN  IF t > Len(line)
                               THEN <<old[1], old[2], new[1], new[2], None>>
                               ELSE IF se < t THEN NoMatch
                               ELSE <<old[1], old[2], new[1], new[2],
                                      Some(SubSeq(line, se + 1, Len(line)))>>

\* `group or default`: None and the empty string are falsy
OrElse(group, default) ==
    IF group = None \/ group[1] = "" THEN default ELSE group[1]

(***************************************************************************)
(* Data structures.                                                        *)
(***************************************************************************)
\* HunkLine(content, line_number_new=None, line_number_old=None, prefix=" ")
HunkLine(content, line_number_new, line_number_old, prefix) ==
    [content |-> content, line_number_new |-> line_number_new,
     line_number_old |-> line_number_old, prefix |-> prefix]

\* DiffHunk(header, old_start, old_count, new_start, new_count, section_header),
\* lines defaulting to a fresh empty list
DiffHunk(header, old_start, old_count, new_start, new_count, section_header) ==
    [header |-> header, old_start |-> old_start, old_count |-> old_count,
     new_start |-> new_start, new_count |-> new_count, lines |-> <<>>,
     section_header |-> section_header]

\* FilePatch(filename, old_filename): hunks a fresh empty list, the flags False
FilePatch(filename, old_filename) ==
    [filename |-> filename, old_filename |-> old_filename, hunks |-> <<>>,
     is_new_file |-> FALSE, is_deleted_file |-> FALSE, is_binary |-> FALSE]

\* [x for x in seq if Test(x)]
RECURSIVE SelectLines(_, _)
SelectLines(lines, prefixes) ==
    IF lines = <<>> THEN <<>>
    ELSE IF Head(lines).prefix \in prefixes
         THEN <<Head(lines)>> \o SelectLines(Tail(lines), prefixes)
         ELSE SelectLines(Tail(lines), prefixes)

\* the DiffHunk properties
new_lines(hunk) == SelectLines(hunk.lines, {"+", " "})
old_lines(hunk) == SelectLines(hunk.lines, {"-", " "})
\* mutant: added_lines takes the context lines as well
added_or_context_lines(hunk) == SelectLines(hunk.lines, {"+", " "})

added_lines(hunk) == SelectLines(hunk.lines, {"+"})
removed_lines(hunk) == SelectLines(hunk.lines, {"-"})

\* sum(...) of a list of integers
RECURSIVE SumOf(_)
SumOf(numbers) == IF numbers = <<>> THEN 0 ELSE Head(numbers) + SumOf(Tail(numbers))

\* the FilePatch properties, of a patch read with its hunks
total_additions(patch) ==
    SumOf([i \in 1..Len(patch.hunks) |-> Len(added_lines(patch.hunks[i]))])

total_deletions(patch) ==
    SumOf([i \in 1..Len(patch.hunks) |-> Len(removed_lines(patch.hunks[i]))])

total_changes(patch) == total_additions(patch) + total_deletions(patch)

(***************************************************************************)
(* The locals of a call.  One record holds the locals of whichever of the  *)
(* four functions the caller is running; pc is its position.               *)
(***************************************************************************)
IdleFrame ==
    [pc |-> "idle",
     \* parse_diff
     diff_text |-> "", raw_lines |-> <<>>, idx |-> 0,
     patches |-> <<>>, current_patch |-> NoneRef, current_hunk |-> NoneRef,
     new_line_no |-> 0, old_line_no |-> 0,
     \* format_diff_for_prompt (patches is its argument; chars_per_token is a
     \* ratio <<numerator, denominator>>)
     max_tokens |-> 0, chars_per_token |-> <<7, 2>>, max_chars |-> 0,
     parts |-> <<>>, total_chars |-> 0, text |-> "",
     \* split_diff_for_chunks (patches is its argument)
     max_tokens_per_chunk |-> 0, chunks |-> <<>>, current_chunk |-> <<>>,
     current_tokens |-> 0,
     \* get_pr_diff_summary: the dict it returned, None before
     summary |-> None,
     \* the caller's formatted_diff: the text an earlier call of
     \* format_diff_for_prompt returned, None before
     formatted_diff |-> None,
     \* _should_skip_file: its argument, and what it returned, None before
     filename |-> "", skipped |-> None]

\* a call of parse_diff(diff_text) about to run
ParseCall(diff_text) == [IdleFrame EXCEPT !.pc = "parse", !.diff_text = diff_text]

(***************************************************************************)
(* parse_diff: one step per line of the loop.  A step maps the locals and  *)
(* the two heaps to the locals and heaps after it.                         *)
(***************************************************************************)
State(f, P, H) == [f |-> f, P |-> P, H |-> H]

\* attribute access or a method call on None raises
Raise(f, P, H) == State([f EXCEPT !.pc = "raised"], P, H)

\* `continue`, and falling off the end of the loop body
NextLine(f, P, H) == State([f EXCEPT !.idx = @ + 1], P, H)

\* mutant: line 123 left out, the hunk open before stays the current hunk
OpenPatchKeepsHunk(f, P, H, file_match) ==
    LET closed == IF f.current_patch # NoneRef
                  THEN Append(f.patches, f.current_patch) ELSE f.patches
        new    == FilePatch(file_match[2],
                            IF file_match[1] # file_match[2]
                            THEN Some(file_match[1]) ELSE None)
    IN  NextLine([f EXCEPT !.patches = closed,
                           !.current_patch = Len(P) + 1],
                 Append(P, new), H)

\* mutant: the patch open before is not appended to the output
OpenPatchDropsPrevious(f, P, H, file_match) ==
    LET new == FilePatch(file_match[2],
                         IF file_match[1] # file_match[2]
                         THEN Some(file_match[1]) ELSE None)
    IN  NextLine([f EXCEPT !.current_patch = Len(P) + 1,
                           !.current_hunk = NoneRef],
                 Append(P, new), H)

\* lines 116-124: close the previous patch, open a new one, no hunk open
OpenPatch(f, P, H, file_match) ==
    LET closed == IF f.current_patch # NoneRef
                  THEN Append(f.patches, f.current_patch) ELSE f.patches
        new    == FilePatch(file_match[2],
                            IF file_match[1] # file_match[2]
                            THEN Some(file_match[1]) ELSE None)
    IN  NextLine([f EXCEPT !.patches = closed,
                           !.current_patch = Len(P) + 1,
                           !.current_hunk = NoneRef],
                 Append(P, new), H)

\* mutant: the guard of line 126 left out
NoPatchOpenUnchecked(f) == FALSE

\* line 126: `if current_patch is None: continue`
NoPatchOpen(f) == f.current_patch = NoneRef

\* mutant: a mode marker closes the open hunk as well
SetFlagClosesHunk(f, P, H, flag) ==
    NextLine([f EXCEPT !.current_hunk = NoneRef],
             [P EXCEPT ![f.current_patch][flag] = TRUE], H)

\* lines 130-138: the mode markers set a flag of the current patch
SetFlag(f, P, H, flag) ==
    IF f.current_patch = NoneRef THEN Raise(f, P, H)
    ELSE NextLine(f, [P EXCEPT ![f.current_patch][flag] = TRUE], H)

\* mutant: only `index ` lines are metadata, lines 141-142 left out
IsMetadataIndexOnly(raw_line) == StartsWith(raw_line, "index ")

\* lines 141-144: --- and +++ headers and index lines are skipped
IsMetadata(raw_line) ==
    \/ StartsWith(raw_line, "---")
    \/ StartsWith(raw_line, "+++")
    \/ StartsWith(raw_line, "index ")

\* line 152, 154: the count of a hunk header, 1 when the group is absent
CountOf(group) == IntOf(OrElse(group, "1"))

\* mutant: lines 158-159 left out, the counters keep their values
OpenHunkKeepsCounters(f, P, H, raw_line, hunk_match) ==
    LET hunk == DiffHunk(raw_line,
                         IntOf(hunk_match[1]), CountOf(hunk_match[2]),
                         IntOf(hunk_match[3]), CountOf(hunk_match[4]),
                         OrElse(hunk_match[5], ""))
        ref  == Len(H) + 1
    IN  IF f.current_patch = NoneRef THEN Raise(f, P, H)
        ELSE NextLine([f EXCEPT !.current_hunk = ref],
                      [P EXCEPT ![f.current_patch].hunks = Append(@, ref)],
                      Append(H, hunk))

\* lines 148-160: a hunk header opens a hunk, appended to the current patch
OpenHunk(f, P, H, raw_line, hunk_match) ==
    LET hunk == DiffHunk(raw_line,
                         IntOf(hunk_match[1]), CountOf(hunk_match[2]),
                         IntOf(hunk_match[3]), CountOf(hunk_match[4]),
                         OrElse(hunk_match[5], ""))
        ref  == Len(H) + 1
    IN  IF f.current_patch = NoneRef THEN Raise(f, P, H)
        ELSE NextLine([f EXCEPT !.current_hunk = ref,
                                !.new_line_no = hunk.new_start,
                                !.old_line_no = hunk.old_start],
                      [P EXCEPT ![f.current_patch].hunks = Append(@, ref)],
                      Append(H, hunk))

\* mutant: the guard of line 163 left out
NoHunkOpenUnchecked(f) == FALSE

\* line 163: `if current_hunk is None: continue`
NoHunkOpen(f) == f.current_hunk = NoneRef

\* mutant: the line goes to the hunk opened last by any call, as if current_hunk
\* were shared by the calls
AppendLineToNewest(f, P, H, line) ==
    IF f.current_hunk = NoneRef THEN Raise(f, P, H)
    ELSE State(f, P, [H EXCEPT ![Len(H)].lines = Append(@, line)])

\* mutant: the line goes to the first hunk of the current patch
AppendLineToFirstHunk(f, P, H, line) ==
    IF f.current_hunk = NoneRef THEN Raise(f, P, H)
    ELSE State(f, P, [H EXCEPT ![P[f.current_patch].hunks[1]].lines = Append(@, line)])

\* current_hunk.lines.append(line)
AppendLine(f, P, H, line) ==
    IF f.current_hunk = NoneRef THEN Raise(f, P, H)
    ELSE State(f, P, [H EXCEPT ![f.current_hunk].lines = Append(@, line)])

\* lines 166-172
Addition(f, P, H, raw_line) ==
    LET s == AppendLine(f, P, H, HunkLine(DropFirst(raw_line), Some(f.new_line_no), None, "+"))
    IN  IF s.f.pc = "raised" THEN s
        ELSE NextLine([s.f EXCEPT !.new_line_no = @ + 1], s.P, s.H)

\* mutant: a deletion records the new-file number as well
DeletionRecordsBoth(f, P, H, raw_line) ==
    LET s == AppendLine(f, P, H,
                 HunkLine(DropFirst(raw_line), Some(f.new_line_no), Some(f.old_line_no), "-"))
    IN  IF s.f.pc = "raised" THEN s
        ELSE NextLine([s.f EXCEPT !.old_line_no = @ + 1], s.P, s.H)

\* lines 173-179
Deletion(f, P, H, raw_line) ==
    LET s == AppendLine(f, P, H, HunkLine(DropFirst(raw_line), None, Some(f.old_line_no), "-"))
    IN  IF s.f.pc = "raised" THEN s
        ELSE NextLine([s.f EXCEPT !.old_line_no = @ + 1], s.P, s.H)

\* mutant: a context line advances new_line_no only
ContextAdvancesNewOnly(f, P, H, raw_line) ==
    LET content == IF StartsWith(raw_line, " ") THEN DropFirst(raw_line) ELSE ""
        s == AppendLine(f, P, H, HunkLine(content, Some(f.new_line_no), Some(f.old_line_no), " "))
    IN  IF s.f.pc = "raised" THEN s
        ELSE NextLine([s.f EXCEPT !.new_line_no = @ + 1], s.P, s.H)

\* lines 180-189
Context(f, P, H, raw_line) ==
    LET content == IF StartsWith(raw_line, " ") THEN DropFirst(raw_line) ELSE ""
        s == AppendLine(f, P, H, HunkLine(content, Some(f.new_line_no), Some(f.old_line_no), " "))
    IN  IF s.f.pc = "raised" THEN s
        ELSE NextLine([s.f EXCEPT !.new_line_no = @ + 1, !.old_line_no = @ + 1], s.P, s.H)

\* lines 166-189: the content line of an open hunk, by its first character
ContentLine(f, P, H, raw_line) ==
    IF StartsWith(raw_line, "+") THEN Addition(f, P, H, raw_line)
    ELSE IF StartsWith(raw_line, "-") THEN Deletion(f, P, H, raw_line)
    ELSE IF StartsWith(raw_line, " ") \/ raw_line = "" THEN Context(f, P, H, raw_line)
    ELSE NextLine(f, P, H)

\* lines 113-189: the body of the loop for one raw_line
ParseStep(f, P, H, raw_line) ==
    LET file_match == FileHeaderMatch(raw_line)
        hunk_match == HunkHeaderMatch(raw_line)
    IN  IF file_match # NoMatch THEN OpenPatch(f, P, H, file_match)
        ELSE IF NoPatchOpen(f) THEN NextLine(f, P, H)
        ELSE IF StartsWith(raw_line, "new file mode") THEN SetFlag(f, P, H, "is_new_file")
        ELSE IF StartsWith(raw_line, "deleted file mode") THEN SetFlag(f, P, H, "is_deleted_file")
        ELSE IF Contains(raw_line, "Binary files") THEN SetFlag(f, P, H, "is_binary")
        ELSE IF IsMetadata(raw_line) THEN NextLine(f, P, H)
        ELSE IF hunk_match # NoMatch THEN OpenHunk(f, P, H, raw_line, hunk_match)
        ELSE IF NoHunkOpen(f) THEN NextLine(f, P, H)
        ELSE ContentLine(f, P, H, raw_line)

\* lines 104-105: an empty or whitespace-only text parses to no patches
IsBlankText(diff_text) == diff_text = "" \/ StripIsEmpty(diff_text)

\* lines 104-113: the early return, or the split into lines and the locals' first values
ParseBegin(c) ==
    LET f == frame[c]
    IN  /\ f.pc = "parse"
        /\ frame' = [frame EXCEPT ![c] =
               IF IsBlankText(f.diff_text)
               THEN [f EXCEPT !.pc = "parsed", !.patches = <<>>]
               ELSE [f EXCEPT !.pc = "parse_loop",
                              !.raw_lines = SplitLines(f.diff_text), !.idx = 1,
                              !.patches = <<>>, !.current_patch = NoneRef,
                              !.current_hunk = NoneRef,
                              !.new_line_no = 0, !.old_line_no = 0]]
        /\ UNCHANGED <<patch_objs, hunk_objs>>

\* one iteration of `for raw_line in diff_text.split("\n")`
ParseLine(c) ==
    /\ frame[c].pc = "parse_loop"
    /\ frame[c].idx <= Len(frame[c].raw_lines)
    /\ LET s == ParseStep(frame[c], patch_objs, hunk_objs, frame[c].raw_lines[frame[c].idx])
       IN  /\ frame' = [frame EXCEPT ![c] = s.f]
           /\ patch_objs' = s.P
           /\ hunk_objs' = s.H

\* lines 191-200: the last patch is appended and the list returned
ParseEnd(c) ==
    LET f == frame[c]
    IN  /\ f.pc = "parse_loop"
        /\ f.idx > Len(f.raw_lines)
        /\ frame' = [frame EXCEPT ![c] =
               [f EXCEPT !.pc = "parsed",
                         !.patches = IF f.current_patch # NoneRef
                                     THEN Append(f.patches, f.current_patch)
                                     ELSE f.patches]]
        /\ UNCHANGED <<patch_objs, hunk_objs>>

(***************************************************************************)
(* Values read through references: a patch with its hunks, a list of       *)
(* patches.                                                                *)
(***************************************************************************)
HunksOf(P, H, ref) == [i \in 1..Len(P[ref].hunks) |-> H[P[ref].hunks[i]]]

PatchValue(P, H, ref) == [P[ref] EXCEPT !.hunks = HunksOf(P, H, ref)]

PatchValues(P, H, refs) == [i \in 1..Len(refs) |-> PatchValue(P, H, refs[i])]

(***************************************************************************)
(* _should_skip_file: re.search of each pattern, re.IGNORECASE.            *)
(***************************************************************************)
UpperAlpha == "ABCDEFGHIJKLMNOPQRSTUVWXYZ"
LowerAlpha == "abcdefghijklmnopqrstuvwxyz"

UpperChars == {CharAt(UpperAlpha, i) : i \in 1..Len(UpperAlpha)}

LowerMap ==
    [ch \in UpperChars |->
        CharAt(LowerAlpha, CHOOSE i \in 1..Len(UpperAlpha) : CharAt(UpperAlpha, i) = ch)]

LowerChar(ch) == IF ch \in UpperChars THEN LowerMap[ch] ELSE ch

RECURSIVE Lower(_)
Lower(s) == IF Len(s) = 0 THEN "" ELSE LowerChar(CharAt(s, 1)) \o Lower(DropFirst(s))

\* skip_patterns: <<the literal text of the pattern, whether it ends with $>>
skip_patterns ==
    << <<"package-lock.json", TRUE>>, <<"yarn.lock", TRUE>>, <<"pnpm-lock.yaml", TRUE>>,
       <<"go.sum", TRUE>>, <<"cargo.lock", TRUE>>, <<"composer.lock", TRUE>>,
       <<"Gemfile.lock", TRUE>>, <<"Pipfile.lock", TRUE>>, <<"poetry.lock", TRUE>>,
       <<".min.js", TRUE>>, <<".min.css", TRUE>>, <<".map", TRUE>>, <<".svg", TRUE>>,
       <<".png", TRUE>>, <<".jpg", TRUE>>, <<".jpeg", TRUE>>, <<".gif", TRUE>>,
       <<".ico", TRUE>>, <<".pdf", TRUE>>, <<"__snapshots__/", FALSE>>,
       <<".ipynb", TRUE>> >>

\* re.IGNORECASE: pattern and text are compared with their letters lowered
LoweredPatterns ==
    [i \in 1..Len(skip_patterns) |-> <<Lower(skip_patterns[i][1]), skip_patterns[i][2]>>]

\* mutant: the $ of the patterns left out
PatternFoundAnywhere(pattern, name) == Contains(name, pattern[1])

\* re.search(pattern, filename, re.IGNORECASE) on the lowered pattern and name;
\* $ matches at the end of the string and before a newline that ends it
PatternFound(pattern, name) ==
    IF pattern[2] THEN EndsWith(name, pattern[1]) \/ EndsWith(name, pattern[1] \o "\n")
    ELSE Contains(name, pattern[1])

should_skip_file(filename) ==
    LET name == Lower(filename)
    IN  \E i \in 1..Len(LoweredPatterns) : PatternFound(LoweredPatterns[i], name)

\* a call of _should_skip_file(filename) at its loop
SkipCall(filename) ==
    [IdleFrame EXCEPT !.pc = "skip_loop", !.filename = filename, !.idx = 1]

\* lines 358-360: one iteration of `for pattern in skip_patterns`
SkipPattern(c) ==
    LET f == frame[c]
    IN  /\ f.pc = "skip_loop"
        /\ f.idx <= Len(skip_patterns)
        /\ frame' = [frame EXCEPT ![c] =
               IF PatternFound(LoweredPatterns[f.idx], Lower(f.filename))
               THEN [f EXCEPT !.pc = "skip_done", !.skipped = Some(TRUE)]
               ELSE [f EXCEPT !.idx = @ + 1]]
        /\ UNCHANGED <<patch_objs, hunk_objs>>

\* line 361: no pattern was found
SkipEnd(c) ==
    LET f == frame[c]
    IN  /\ f.pc = "skip_loop"
        /\ f.idx > Len(skip_patterns)
        /\ frame' = [frame EXCEPT ![c] =
               [f EXCEPT !.pc = "skip_done", !.skipped = Some(FALSE)]]
        /\ UNCHANGED <<patch_objs, hunk_objs>>

(***************************************************************************)
(* format_diff_for_prompt: one step per patch of the loop.                 *)
(***************************************************************************)
\* line 216: int(max_tokens * chars_per_token)
MaxChars(max_tokens, chars_per_token) ==
    (max_tokens * chars_per_token[1]) \div chars_per_token[2]

\* line 223
BinarySection(patch) ==
    "\n## File: '" \o patch.filename \o "'\n[Binary file - skipped]\n"

\* line 229
SkippedSection(patch) ==
    "\n## File: '" \o patch.filename
        \o "'\n[Auto-generated/Lock file - skipped to save tokens]\n"

\* line 271
TruncatedSection(patch) ==
    "\n## File: '" \o patch.filename \o "'\n[Content truncated - file too large]\n"

\* lines 234-240
FileHeader(patch) ==
    "\n## File: '" \o patch.filename \o "'" \o
        (IF patch.is_new_file THEN " (new file)"
         ELSE IF patch.is_deleted_file THEN " (deleted)"
         ELSE IF patch.old_filename # None /\ patch.old_filename[1] # ""
              THEN " (renamed from '" \o patch.old_filename[1] \o "')"
              ELSE "")

\* the format spec >4: right-aligned in a field of at least 4 characters
RECURSIVE PadLeft(_, _)
PadLeft(s, width) == IF Len(s) >= width THEN s ELSE PadLeft(" " \o s, width)

\* line 253: `line.line_number_new or ""` (None and 0 are falsy), as formatted text
LineNo(line) ==
    IF line.line_number_new = None \/ line.line_number_new[1] = 0 THEN ""
    ELSE StrOf(line.line_number_new[1])

\* lines 253-255
NewHunkLine(line) ==
    PadLeft(LineNo(line), 4) \o " " \o (IF line.prefix = "+" THEN "+" ELSE " ")
        \o line.content

\* lines 262-263
OldHunkLine(line) == " " \o (IF line.prefix = "-" THEN "-" ELSE " ") \o line.content

\* mutant: the __old hunk__ block is emitted whenever the hunk has an old-visible
\* line, a context line included
HunkPartsOldForContext(hunk) ==
    LET news == new_lines(hunk)
        olds == old_lines(hunk)
    IN  <<IF hunk.section_header # "" THEN "@@ ... @@ " \o hunk.section_header
          ELSE "@@ ... @@",
          "__new hunk__">>
        \o [i \in 1..Len(news) |-> NewHunkLine(news[i])]
        \o (IF olds # <<>>
            THEN <<"__old hunk__">> \o [i \in 1..Len(olds) |-> OldHunkLine(olds[i])]
            ELSE <<>>)
        \o <<"">>

\* lines 246-265: the file_parts of one hunk
HunkParts(hunk) ==
    LET news == new_lines(hunk)
        olds == old_lines(hunk)
    IN  <<IF hunk.section_header # "" THEN "@@ ... @@ " \o hunk.section_header
          ELSE "@@ ... @@",
          "__new hunk__">>
        \o [i \in 1..Len(news) |-> NewHunkLine(news[i])]
        \o (IF removed_lines(hunk) # <<>>
            THEN <<"__old hunk__">> \o [i \in 1..Len(olds) |-> OldHunkLine(olds[i])]
            ELSE <<>>)
        \o <<"">>

RECURSIVE AllHunkParts(_)
AllHunkParts(hunks) ==
    IF hunks = <<>> THEN <<>> ELSE HunkParts(Head(hunks)) \o AllHunkParts(Tail(hunks))

\* lines 242-267: "\n".join(file_parts)
FileSection(patch) == JoinLines(<<FileHeader(patch), "">> \o AllHunkParts(patch.hunks))

\* mutant: the placeholder is appended but not counted, lines 225, 231 left out
EmitPlaceholderUncounted(f, file_section) ==
    [f EXCEPT !.parts = Append(@, file_section),
              !.idx = @ + 1]

\* lines 224-226, 230-232: a placeholder is appended and counted, without a check
EmitPlaceholder(f, file_section) ==
    [f EXCEPT !.parts = Append(@, file_section),
              !.total_chars = @ + Len(file_section),
              !.idx = @ + 1]

\* mutant: the placeholder is appended and the loop goes on (`continue` for `break`)
TruncateAndGoOn(f, patch) ==
    [f EXCEPT !.parts = Append(@, TruncatedSection(patch)), !.idx = @ + 1]

\* lines 271-272: the truncation placeholder, then `break`
Truncate(f, patch) ==
    [f EXCEPT !.parts = Append(@, TruncatedSection(patch)), !.pc = "render_break"]

\* mutant: the total is compared with max_chars before the section is counted
EmitSectionChecksBefore(f, patch) ==
    LET file_section == FileSection(patch)
        counted == [f EXCEPT !.total_chars = @ + Len(file_section)]
    IN  IF f.total_chars > f.max_chars THEN Truncate(counted, patch)
        ELSE [counted EXCEPT !.parts = Append(@, file_section), !.idx = @ + 1]

\* lines 267-274: the section is counted, then appended if the total fits
EmitSection(f, patch) ==
    LET file_section == FileSection(patch)
        counted == [f EXCEPT !.total_chars = @ + Len(file_section)]
    IN  IF counted.total_chars > counted.max_chars THEN Truncate(counted, patch)
        ELSE [counted EXCEPT !.parts = Append(@, file_section), !.idx = @ + 1]

\* mutant: the skip filter is asked before is_binary
RenderStepSkipFirst(f, patch) ==
    IF should_skip_file(patch.filename) THEN EmitPlaceholder(f, SkippedSection(patch))
    ELSE IF patch.is_binary THEN EmitPlaceholder(f, BinarySection(patch))
    ELSE EmitSection(f, patch)

\* lines 220-274: the body of the loop for one patch
RenderStep(f, patch) ==
    IF patch.is_binary THEN EmitPlaceholder(f, BinarySection(patch))
    ELSE IF should_skip_file(patch.filename) THEN EmitPlaceholder(f, SkippedSection(patch))
    ELSE EmitSection(f, patch)

\* mutant: total_chars is not set to 0 by the call but lives on from the last one
RenderCallKeepsTotal(f, patches, max_tokens, chars_per_token) ==
    [f EXCEPT !.pc = "render_loop", !.patches = patches, !.idx = 1,
              !.max_tokens = max_tokens, !.chars_per_token = chars_per_token,
              !.max_chars = MaxChars(max_tokens, chars_per_token),
              !.parts = <<>>, !.text = ""]

\* a call of format_diff_for_prompt(patches, max_tokens, chars_per_token) at its
\* loop, lines 216-218 done
RenderCall(f, patches, max_tokens, chars_per_token) ==
    [f EXCEPT !.pc = "render_loop", !.patches = patches, !.idx = 1,
              !.max_tokens = max_tokens, !.chars_per_token = chars_per_token,
              !.max_chars = MaxChars(max_tokens, chars_per_token),
              !.parts = <<>>, !.total_chars = 0, !.text = ""]

\* the budgets callers render with: <<max_tokens, chars_per_token>>
Budgets == {<<10, <<1, 1>>>>, <<5, <<7, 2>>>>, <<8000, <<7, 2>>>>}

\* the caller renders what it parsed (tools/pr_chat.py)
RenderParsed(c) ==
    /\ frame[c].pc = "parsed"
    /\ \E b \in Budgets :
           frame' = [frame EXCEPT ![c] = RenderCall(frame[c], frame[c].patches, b[1], b[2])]
    /\ UNCHANGED <<patch_objs, hunk_objs>>

\* one iteration of `for patch in patches`
RenderPatch(c) ==
    LET f == frame[c]
    IN  /\ f.pc = "render_loop"
        /\ f.idx <= Len(f.patches)
        /\ frame' = [frame EXCEPT ![c] =
               RenderStep(f, PatchValue(patch_objs, hunk_objs, f.patches[f.idx]))]
        /\ UNCHANGED <<patch_objs, hunk_objs>>

\* mutant: the function may return from inside the loop
RenderLoopOverAnyTime(f) == f.pc \in {"render_loop", "render_break"}

\* the loop is over: every patch was taken, or `break` left it
RenderLoopOver(f) ==
    IF f.pc = "render_loop" THEN f.idx > Len(f.patches) ELSE f.pc = "render_break"

\* line 276: return "\n".join(parts)
RenderEnd(c) ==
    LET f == frame[c]
    IN  /\ RenderLoopOver(f)
        /\ frame' = [frame EXCEPT ![c] =
               [f EXCEPT !.pc = "rendered", !.text = JoinLines(f.parts)]]
        /\ UNCHANGED <<patch_objs, hunk_objs>>

\* the caller keeps the text and renders the same patches again, with the same
\* max_tokens and chars_per_token
RenderAgain(c) ==
    LET f == frame[c]
    IN  /\ f.pc = "rendered"
        /\ f.formatted_diff = None
        /\ frame' = [frame EXCEPT ![c] =
               [RenderCall(f, f.patches, f.max_tokens, f.chars_per_token)
                    EXCEPT !.formatted_diff = Some(f.text)]]
        /\ UNCHANGED <<patch_objs, hunk_objs>>

(***************************************************************************)
(* split_diff_for_chunks: one step per patch of the loop.                  *)
(***************************************************************************)
RECURSIVE SumLineChars(_)
SumLineChars(lines) ==
    IF lines = <<>> THEN 0 ELSE Len(Head(lines).content) + 10 + SumLineChars(Tail(lines))

\* lines 314-318: len(line.content) + 10 over every line of every hunk
RECURSIVE EstimatedChars(_)
EstimatedChars(hunks) ==
    IF hunks = <<>> THEN 0
    ELSE SumLineChars(Head(hunks).lines) + EstimatedChars(Tail(hunks))

\* line 311: chars_per_token = 3.5, as the ratio 7 / 2
SplitCharsPerToken == <<7, 2>>

\* line 319: int(estimated_chars / chars_per_token)
EstimatedTokens(patch) ==
    (EstimatedChars(patch.hunks) * SplitCharsPerToken[2]) \div SplitCharsPerToken[1]

\* mutant: the current chunk is emptied without being appended to chunks
CloseChunkDropsIt(f) ==
    [f EXCEPT !.current_chunk = <<>>,
              !.current_tokens = 0]

\* lines 321-324: the current chunk is closed
CloseChunk(f) ==
    [f EXCEPT !.chunks = Append(@, f.current_chunk),
              !.current_chunk = <<>>,
              !.current_tokens = 0]

\* lines 313-326: the body of the loop for the patch behind `ref`
SplitStep(f, ref, patch) ==
    LET estimated_tokens == EstimatedTokens(patch)
        g == IF f.current_tokens + estimated_tokens > f.max_tokens_per_chunk
                  /\ f.current_chunk # <<>>
             THEN CloseChunk(f) ELSE f
    IN  [g EXCEPT !.current_chunk = Append(@, ref), !.idx = @ + 1]

\* a call of split_diff_for_chunks(patches, max_tokens_per_chunk) at its loop,
\* lines 308-311 done
SplitCall(f, patches, max_tokens_per_chunk) ==
    [f EXCEPT !.pc = "split_loop", !.patches = patches, !.idx = 1,
              !.max_tokens_per_chunk = max_tokens_per_chunk,
              !.chunks = <<>>, !.current_chunk = <<>>, !.current_tokens = 0]

\* the limits callers split what they parsed with
ParsedChunkLimits == {1, 4000}

\* the caller splits what it parsed (tools/code_suggestions.py)
SplitParsed(c) ==
    /\ frame[c].pc = "parsed"
    /\ \E limit \in ParsedChunkLimits :
           frame' = [frame EXCEPT ![c] = SplitCall(frame[c], frame[c].patches, limit)]
    /\ UNCHANGED <<patch_objs, hunk_objs>>

\* one iteration of `for patch in patches`
SplitPatch(c) ==
    LET f == frame[c]
    IN  /\ f.pc = "split_loop"
        /\ f.idx <= Len(f.patches)
        /\ frame' = [frame EXCEPT ![c] =
               SplitStep(f, f.patches[f.idx],
                         PatchValue(patch_objs, hunk_objs, f.patches[f.idx]))]
        /\ UNCHANGED <<patch_objs, hunk_objs>>

\* lines 327-330: the last chunk is appended if it holds a patch
SplitEnd(c) ==
    LET f == frame[c]
    IN  /\ f.pc = "split_loop"
        /\ f.idx > Len(f.patches)
        /\ frame' = [frame EXCEPT ![c] =
               [f EXCEPT !.pc = "split_done",
                         !.chunks = IF f.current_chunk # <<>>
                                    THEN Append(f.chunks, f.current_chunk)
                                    ELSE f.chunks]]
        /\ UNCHANGED <<patch_objs, hunk_objs>>

(***************************************************************************)
(* get_pr_diff_summary: one expression, evaluated in one step.             *)
(***************************************************************************)
\* lines 287-294: the entry of one patch
SummaryEntry(patch) ==
    [filename |-> patch.filename,
     additions |-> total_additions(patch),
     deletions |-> total_deletions(patch),
     is_new |-> patch.is_new_file,
     is_deleted |-> patch.is_deleted_file,
     is_binary |-> patch.is_binary]

\* mutant: one entry per filename, the first patch of that name
RECURSIVE SummaryFilesByName(_)
SummaryFilesByName(patches) ==
    IF patches = <<>> THEN <<>>
    ELSE LET rest == SummaryFilesByName(SubSeq(patches, 1, Len(patches) - 1))
             last == patches[Len(patches)]
         IN  IF \E i \in 1..Len(rest) : rest[i].filename = last.filename THEN rest
             ELSE Append(rest, SummaryEntry(last))

\* lines 286-296: [{...} for p in patches]
SummaryFiles(patches) == [i \in 1..Len(patches) |-> SummaryEntry(patches[i])]

\* lines 281-297
get_pr_diff_summary(patches) ==
    [total_files |-> Len(patches),
     total_additions |-> SumOf([i \in 1..Len(patches) |-> total_additions(patches[i])]),
     total_deletions |-> SumOf([i \in 1..Len(patches) |-> total_deletions(patches[i])]),
     total_changes |-> SumOf([i \in 1..Len(patches) |-> total_changes(patches[i])]),
     files |-> SummaryFiles(patches)]

\* the caller summarizes what it parsed (tools/pr_reviewer.py)
Summarize(c) ==
    LET f == frame[c]
    IN  /\ f.pc = "parsed"
        /\ frame' = [frame EXCEPT ![c] =
               [f EXCEPT !.pc = "summarized",
                         !.summary = Some(get_pr_diff_summary(
                                              PatchValues(patch_objs, hunk_objs, f.patches)))]]
        /\ UNCHANGED <<patch_objs, hunk_objs>>

(***************************************************************************)
(* Diff texts.  The lines cover every shape the parser tells apart.        *)
(***************************************************************************)
FileHeaderLines == {"diff --git a/f b/f", "diff --git a/y.map b/y.map"}

MarkerLines == {"new file mode 1", "Binary files differ"}

MetadataLines == {"--- a/f", "index 1..2"}

HunkHeaderLines == {"@@ -10,5 +10,7 @@", "@@ -3 +0,2 @@ g"}

ContentLines == {"+a", "-b", " c", ""}

OtherLines == {"\\ No newline", "+Binary files"}

AnyLines ==
    FileHeaderLines \cup MarkerLines \cup MetadataLines \cup HunkHeaderLines
        \cup ContentLines \cup OtherLines

BodyLines == ContentLines \cup OtherLines \cup {"--- a/f"}

SeqsUpTo(S, n) == UNION {[1..k -> S] : k \in 0..n}

\* the diff of one file: a text file with six changed lines (the text ending
\* with a line terminator), a file with no hunk, a skipped file, a binary file,
\* a new file under a new name, a deleted file
FileDiffs ==
    {<<"diff --git a/f b/f", "index 1..2", "--- a/f", "+++ b/f",
       "@@ -10,5 +10,7 @@", " c", "-b", "+a", "+a", " c", "">>,
     <<"diff --git a/f b/f">>,
     <<"diff --git a/y.map b/y.map", "@@ -3 +0,2 @@ g", "+a">>,
     <<"diff --git a/f b/f", "Binary files differ">>,
     <<"diff --git a/o b/n", "new file mode 1", "@@ -3 +0,2 @@ g", "+a">>,
     <<"diff --git a/f b/f", "deleted file mode 1", "@@ -3 +0,2 @@ g", "-b">>}

RECURSIVE Flatten(_)
Flatten(seqs) == IF seqs = <<>> THEN <<>> ELSE Head(seqs) \o Flatten(Tail(seqs))

\* one file modified by one hunk @@ -5,3 +5,4 @@ of 2 additions and 1 deletion
ModifiedFileText ==
    JoinLines(<<"diff --git a/f b/f", "index 1..2", "--- a/f", "+++ b/f",
                "@@ -5,3 +5,4 @@", " c", "-b", "+a", "+a", " c">>)

\* content lines before the first file header, a file with one hunk, then
\* content lines between the header of a second file and the end
StrayLinesText ==
    JoinLines(<<"+a", "diff --git a/f b/f", "@@ -5,3 +5,4 @@", "+a",
                "diff --git a/o b/n", "+a", " c", "", "-b">>)

\* one file with three hunks: two lines, then a line that holds `Binary files`
\* between two added lines, then a header with no content
ThreeHunksText ==
    JoinLines(<<"diff --git a/f b/f", "@@ -10,5 +10,7 @@", "+a", "-b",
                "@@ -3 +0,2 @@ g", "+a", "\\ Binary files", "+a",
                "@@ -5,3 +5,4 @@">>)

\* a hunk header whose section text holds `Binary files`
BinarySectionText ==
    JoinLines(<<"diff --git a/f b/f", "@@ -5,3 +5,4 @@ Binary files", "+a">>)

\* a hunk whose body holds a removed line starting with `--`, an added line
\* starting with `++` and a line starting with `index `
DashedBodyText ==
    JoinLines(<<"diff --git a/f b/f", "@@ -5,3 +5,4 @@", "-b", "--- x",
                "+++ y", "index z", "-b", "+a">>)

\* single texts: whitespace only; the modified file, without and with a line
\* terminator at the end of the text; one file, not renamed, in a directory
\* named "d b"; a file renamed from "o" to "n" with a preamble before its header
ExampleTexts ==
    {" ", " \t\n \n\t",
     ModifiedFileText,
     ModifiedFileText \o "\n",
     StrayLinesText,
     DashedBodyText,
     ThreeHunksText,
     BinarySectionText,
     JoinLines(<<"diff --git a/d b/f b/d b/f", "@@ -5,3 +5,4 @@", "+a">>),
     JoinLines(<<"From 1", "", "diff --git a/o b/n", "@@ -5,3 +5,4 @@", "-b">>)}

\* texts of up to MaxLines lines of any shape in any order, texts of one file
\* header, one hunk header and up to MaxBody body lines, texts of up to
\* MaxFiles file diffs, and the single texts
DiffTexts ==
    {JoinLines(ls) : ls \in SeqsUpTo(AnyLines, MaxLines)}
        \cup {JoinLines(<<"diff --git a/f b/f", "@@ -3 +0,2 @@ g">> \o body) :
                  body \in SeqsUpTo(BodyLines, MaxBody)}
        \cup {JoinLines(Flatten(fs)) : fs \in SeqsUpTo(FileDiffs, MaxFiles)}
        \cup ExampleTexts

(***************************************************************************)
(* The parser alone: caller 1 parses one diff text.                        *)
(***************************************************************************)
Init ==
    /\ \E text \in DiffTexts :
           frame = [c \in Callers |-> IF c = 1 THEN ParseCall(text) ELSE IdleFrame]
    /\ patch_objs = <<>>
    /\ hunk_objs = <<>>

Next ==
    \E c \in Callers :
        \/ ParseBegin(c)
        \/ ParseLine(c)
        \/ ParseEnd(c)

Spec == Init /\ [][Next]_vars

(***************************************************************************)
(* Parse, then render what was parsed.                                     *)
(***************************************************************************)
RenderNext ==
    \E c \in Callers :
        \/ ParseBegin(c)
        \/ ParseLine(c)
        \/ ParseEnd(c)
        \/ RenderParsed(c)
        \/ RenderPatch(c)
        \/ RenderEnd(c)

RenderSpec == Init /\ [][RenderNext]_vars

(***************************************************************************)
(* Parse, render what was parsed, then render it once more.                *)
(***************************************************************************)
RenderTwiceNext ==
    \E c \in Callers :
        \/ ParseBegin(c)
        \/ ParseLine(c)
        \/ ParseEnd(c)
        \/ RenderParsed(c)
        \/ RenderPatch(c)
        \/ RenderEnd(c)
        \/ RenderAgain(c)

RenderTwiceSpec == Init /\ [][RenderTwiceNext]_vars

(***************************************************************************)
(* Parse, then summarize what was parsed.                                  *)
(***************************************************************************)
SummaryNext ==
    \E c \in Callers :
        \/ ParseBegin(c)
        \/ ParseLine(c)
        \/ ParseEnd(c)
        \/ Summarize(c)

SummarySpec == Init /\ [][SummaryNext]_vars

(***************************************************************************)
(* The splitter alone: caller 1 splits a list of patches of chosen sizes.  *)
(***************************************************************************)
\* text repeated n times
RECURSIVE Rep(_, _)
Rep(s, n) ==
    IF n = 0 THEN ""
    ELSE LET h == Rep(s, n \div 2)
         IN  IF n % 2 = 0 THEN h \o h ELSE h \o h \o s

\* a patch of one hunk holding one added line of the given length
PatchOfLength(filename, length) ==
    [FilePatch(filename, None) EXCEPT
        !.hunks = <<[DiffHunk("@@ -1 +1 @@", 1, 1, 1, 1, "") EXCEPT
                        !.lines = <<HunkLine(Rep("x", length), Some(1), None, "+")>>]>>]

\* patches of an estimated 0, 3, 3000 and 6000 tokens
SizedPatches ==
    {FilePatch("e", None), PatchOfLength("s", 1),
     PatchOfLength("m", 10490), PatchOfLength("l", 20990)}

\* the patch values stored as objects: the two heaps that hold them
RECURSIVE Store(_, _, _)
Store(values, P, H) ==
    IF values = <<>> THEN [P |-> P, H |-> H]
    ELSE LET v    == Head(values)
             refs == [i \in 1..Len(v.hunks) |-> Len(H) + i]
         IN  Store(Tail(values), Append(P, [v EXCEPT !.hunks = refs]), H \o v.hunks)

\* the limits callers split with: the default and a larger one
ChunkLimits == {4000, 5000}

SplitInit ==
    \E values \in SeqsUpTo(SizedPatches, MaxPatches), limit \in ChunkLimits :
        LET heap == Store(values, <<>>, <<>>)
        IN  /\ patch_objs = heap.P
            /\ hunk_objs = heap.H
            /\ frame = [c \in Callers |->
                   IF c = 1
                   THEN SplitCall(IdleFrame, [i \in 1..Len(values) |-> i], limit)
                   ELSE IdleFrame]

SplitNext ==
    \E c \in Callers :
        \/ SplitPatch(c)
        \/ SplitEnd(c)

SplitSpec == SplitInit /\ [][SplitNext]_vars

(***************************************************************************)
(* Two callers at once: each parses a text and then renders, summarizes or *)
(* splits what it parsed, their steps interleaved in any order.            *)
(***************************************************************************)
\* the modified file, a binary file, a skipped file followed by a renamed new
\* file, a deleted file followed by a file without hunks, a blank text
ConcurrentTexts ==
    {ModifiedFileText,
     JoinLines(<<"diff --git a/f b/f", "Binary files differ">>),
     JoinLines(<<"diff --git a/y.map b/y.map", "@@ -3 +0,2 @@ g", "+a",
                 "diff --git a/o b/n", "new file mode 1", "@@ -3 +0,2 @@ g", "+a">>),
     JoinLines(<<"diff --git a/f b/f", "deleted file mode 1", "@@ -3 +0,2 @@ g", "-b",
                 "diff --git a/f b/f">>),
     " "}

ConcurrentInit ==
    /\ \E texts \in [Callers -> ConcurrentTexts] :
           frame = [c \in Callers |-> ParseCall(texts[c])]
    /\ patch_objs = <<>>
    /\ hunk_objs = <<>>

ConcurrentNext ==
    \E c \in Callers :
        \/ ParseBegin(c)
        \/ ParseLine(c)
        \/ ParseEnd(c)
        \/ RenderParsed(c)
        \/ RenderPatch(c)
        \/ RenderEnd(c)
        \/ Summarize(c)
        \/ SplitParsed(c)
        \/ SplitPatch(c)
        \/ SplitEnd(c)

ConcurrentSpec == ConcurrentInit /\ [][ConcurrentNext]_vars

(***************************************************************************)
(* The skip filter alone: caller 1 asks about one file name.               *)
(***************************************************************************)
SkipDirs == {"", "src/", "__snapshots__/", "a/__SNAPSHOTS__/b/"}

SkipNames ==
    {"pnpm-lock.yaml", "bundle.min.js", "diagram.svg", "app.py",
     "PNPM-LOCK.YAML", "Bundle.Min.JS", "diagram.SVG", "Gemfile.lock", "gemfile.lock",
     "diagram.svg.txt", "pnpm-lock.yaml.bak", "svg", "min.js.py", "__snapshots__",
     "x.ipynb", "go.sum", "go.sum.go", "style.min.css", "a.map", "map"}

Filenames == {dir \o name : dir \in SkipDirs, name \in SkipNames}

SkipInit ==
    /\ \E filename \in Filenames :
           frame = [c \in Callers |-> IF c = 1 THEN SkipCall(filename) ELSE IdleFrame]
    /\ patch_objs = <<>>
    /\ hunk_objs = <<>>

SkipNext ==
    \E c \in Callers :
        \/ SkipPattern(c)
        \/ SkipEnd(c)

SkipSpec == SkipInit /\ [][SkipNext]_vars

(***************************************************************************)
(* Properties of parse_diff.                                               *)
(***************************************************************************)
AllHunks == {hunk_objs[h] : h \in 1..Len(hunk_objs)}

HasPrefix(hunk, prefix) == \E i \in 1..Len(hunk.lines) : hunk.lines[i].prefix = prefix

NumberedFromStart(hunk) ==
    LET olds == old_lines(hunk)
        news == new_lines(hunk)
    IN  /\ \A k \in 1..Len(olds) : olds[k].line_number_old = Some(hunk.old_start + k - 1)
        /\ \A k \in 1..Len(news) : news[k].line_number_new = Some(hunk.new_start + k - 1)

\* C1: in every hunk the parser builds, the k-th old-visible line (Deletion or
\* Context) is numbered old_start + k - 1 and the k-th new-visible line (Addition
\* or Context) is numbered new_start + k - 1.
C1_LineNumbering == \A hunk \in AllHunks : NumberedFromStart(hunk)

\* a finished parse with a hunk of additions, deletions and context lines, at
\* least two lines visible on each side
C1_Witness ==
    /\ frame[1].pc = "parsed"
    /\ \E hunk \in AllHunks :
           /\ HasPrefix(hunk, "+") /\ HasPrefix(hunk, "-") /\ HasPrefix(hunk, " ")
           /\ Len(old_lines(hunk)) >= 2
           /\ Len(new_lines(hunk)) >= 2
           /\ hunk.old_start # hunk.new_start

IsFilePatch(patch) ==
    /\ DOMAIN patch = {"filename", "old_filename", "hunks",
                       "is_new_file", "is_deleted_file", "is_binary"}
    /\ patch.filename \in STRING
    /\ patch.old_filename = None \/ patch.old_filename[1] \in STRING
    /\ patch.hunks \in Seq(1..Len(hunk_objs))
    /\ {patch.is_new_file, patch.is_deleted_file, patch.is_binary} \subseteq BOOLEAN

ReturnsPatches(f) ==
    /\ f.pc = "parsed"
    /\ f.patches \in Seq(1..Len(patch_objs))
    /\ \A i \in 1..Len(f.patches) : IsFilePatch(patch_objs[f.patches[i]])

\* the iterations parse_diff has still to make, with its first and last step
StepsLeft(f) ==
    CASE f.pc = "parse" -> Len(SplitLines(f.diff_text)) + 2
      [] f.pc = "parse_loop" -> Len(f.raw_lines) - f.idx + 2
      [] OTHER -> 0

\* C2: whatever lines the text holds, in whatever order, parse_diff never raises;
\* it is at its first step, in its loop or returned, every step it takes brings
\* it nearer to returning, and what it returns is a list of FilePatch.
C2_ParseNeverFails ==
    /\ [](/\ \A c \in Callers : frame[c].pc # "raised"
          /\ frame[1].pc \in {"parse", "parse_loop", "parsed"}
          /\ (frame[1].pc = "parsed" => ReturnsPatches(frame[1])))
    /\ [][StepsLeft(frame'[1]) < StepsLeft(frame[1])]_vars

\* a parse that returned patches from a text that starts with a content line,
\* before any file header, and holds a line of no known shape
C2_Witness ==
    /\ ReturnsPatches(frame[1])
    /\ Len(frame[1].patches) >= 1
    /\ Len(frame[1].raw_lines) >= 1
    /\ frame[1].raw_lines[1] \in ContentLines
    /\ \E i \in 1..Len(frame[1].raw_lines) : frame[1].raw_lines[i] = "\\ No newline"

\* C8: every FilePatch parse_diff returns with is_binary set has no hunks.
C8_BinaryHasNoHunks ==
    \A c \in Callers :
        frame[c].pc = "parsed" =>
            \A i \in 1..Len(frame[c].patches) :
                patch_objs[frame[c].patches[i]].is_binary =>
                    patch_objs[frame[c].patches[i]].hunks = <<>>

LineNumbersByKind(line) ==
    CASE line.prefix = "+" -> line.line_number_new # None /\ line.line_number_old = None
      [] line.prefix = "-" -> line.line_number_old # None /\ line.line_number_new = None
      [] line.prefix = " " -> line.line_number_new # None /\ line.line_number_old # None
      [] OTHER -> FALSE

ContextAdvancesTogether(hunk) ==
    \A i \in 1..(Len(hunk.lines) - 1) :
        hunk.lines[i].prefix = " " /\ hunk.lines[i + 1].prefix = " " =>
            /\ hunk.lines[i + 1].line_number_new = Some(hunk.lines[i].line_number_new[1] + 1)
            /\ hunk.lines[i + 1].line_number_old = Some(hunk.lines[i].line_number_old[1] + 1)

\* C9: an Addition has line_number_new set and line_number_old unset, a Deletion
\* the inverse, a Context line both, and consecutive Context lines advance both
\* numbers by 1.
C9_LineNumberFields ==
    \A hunk \in AllHunks :
        /\ \A i \in 1..Len(hunk.lines) : LineNumbersByKind(hunk.lines[i])
        /\ ContextAdvancesTogether(hunk)

\* a finished parse with a hunk of an addition, a deletion and two consecutive
\* context lines
C9_Witness ==
    /\ frame[1].pc = "parsed"
    /\ \E hunk \in AllHunks :
           /\ HasPrefix(hunk, "+") /\ HasPrefix(hunk, "-")
           /\ \E i \in 1..(Len(hunk.lines) - 1) :
                  hunk.lines[i].prefix = " " /\ hunk.lines[i + 1].prefix = " "

(***************************************************************************)
(* Properties of split_diff_for_chunks.                                    *)
(***************************************************************************)
TokensOf(ref) == EstimatedTokens(PatchValue(patch_objs, hunk_objs, ref))

RECURSIVE ChunkTokens(_)
ChunkTokens(chunk) ==
    IF chunk = <<>> THEN 0 ELSE TokensOf(Head(chunk)) + ChunkTokens(Tail(chunk))

\* C3: in the chunks split_diff_for_chunks returns, every chunk of two or more
\* patches has estimated sizes that sum to no more than max_tokens_per_chunk.
C3_ChunksWithinLimit ==
    \A c \in Callers :
        frame[c].pc = "split_done" =>
            \A k \in 1..Len(frame[c].chunks) :
                Len(frame[c].chunks[k]) >= 2 =>
                    ChunkTokens(frame[c].chunks[k]) <= frame[c].max_tokens_per_chunk

\* C4: three patches of an estimated 3000 tokens each, split with a limit of
\* 5000, come back as two chunks: the first two patches, then the third.
C4_ThreeOfThreeThousand ==
    \A c \in Callers :
        LET f == frame[c]
        IN  (/\ f.pc = "split_done"
             /\ f.max_tokens_per_chunk = 5000
             /\ Len(f.patches) = 3
             /\ \A i \in 1..3 : TokensOf(f.patches[i]) = 3000)
            => f.chunks = << <<f.patches[1], f.patches[2]>>, <<f.patches[3]>> >>

\* C5: in the chunks split_diff_for_chunks returns, a patch whose own estimated
\* size exceeds max_tokens_per_chunk is the only patch of its chunk.
C5_OversizedAlone ==
    \A c \in Callers :
        frame[c].pc = "split_done" =>
            \A k \in 1..Len(frame[c].chunks) :
                \A i \in 1..Len(frame[c].chunks[k]) :
                    TokensOf(frame[c].chunks[k][i]) > frame[c].max_tokens_per_chunk =>
                        Len(frame[c].chunks[k]) = 1

(***************************************************************************)
(* Properties of format_diff_for_prompt.                                   *)
(***************************************************************************)
Rendering(f) == f.pc \in {"render_loop", "render_break", "rendered"}

\* the patch the loop of the renderer is at
PatchAt(f) == PatchValue(patch_objs, hunk_objs, f.patches[f.idx])

HasContentSection(patch) == ~patch.is_binary /\ ~should_skip_file(patch.filename)

\* the section of a patch: its placeholder if it is binary or skipped, else its
\* header and hunks
SectionOf(patch) ==
    IF patch.is_binary THEN BinarySection(patch)
    ELSE IF should_skip_file(patch.filename) THEN SkippedSection(patch)
    ELSE FileSection(patch)

\* the step takes the patch at f.idx, whose section would push the total over
\* max_chars
OverBudgetAt(f) ==
    /\ f.pc = "render_loop"
    /\ f.idx <= Len(f.patches)
    /\ f.total_chars + Len(SectionOf(PatchAt(f))) > f.max_chars

\* the step appended the truncation placeholder of that patch, not its section,
\* and left the loop
TruncatedAt(f, g) ==
    /\ g.parts = Append(f.parts, TruncatedSection(PatchAt(f)))
    /\ g.pc = "render_break"

\* once the loop is left no section is appended
StoppedFor(f, g) == f.pc \in {"render_break", "rendered"} => g.parts = f.parts

IsTruncated(part) == EndsWith(part, "'\n[Content truncated - file too large]\n")

Occurrences(s, sub) ==
    Cardinality({i \in 1..(Len(s) - Len(sub) + 1) : SubSeq(s, i, i + Len(sub) - 1) = sub})

\* C7: the truncation placeholder occurs at most once, as the last section, the
\* loop left; the text returned holds it once, at its end; and with a budget of
\* 10 characters a text file at the head of the list leaves its placeholder as
\* the whole output.
C7_TruncationIsHardStop ==
    \A c \in Callers :
        LET f == frame[c]
        IN  Rendering(f) =>
                /\ \A i \in 1..Len(f.parts) :
                       IsTruncated(f.parts[i]) =>
                           i = Len(f.parts) /\ f.pc \in {"render_break", "rendered"}
                /\ f.pc = "rendered" =>
                       /\ Occurrences(f.text, "[Content truncated - file too large]") <= 1
                       /\ Contains(f.text, "[Content truncated - file too large]")
                              => EndsWith(f.text, "[Content truncated - file too large]\n")
                       /\ (/\ f.max_chars = 10
                           /\ Len(f.patches) >= 1
                           /\ HasContentSection(PatchValue(patch_objs, hunk_objs, f.patches[1])))
                              => f.text = TruncatedSection(patch_objs[f.patches[1]])

\* a budget of 10 characters and several text files, one of them with lines:
\* the output is the placeholder of the first
C7_Witness ==
    LET f == frame[1]
    IN  /\ f.pc = "rendered"
        /\ f.max_chars = 10
        /\ Len(f.patches) >= 2
        /\ \A i \in 1..Len(f.patches) :
               HasContentSection(PatchValue(patch_objs, hunk_objs, f.patches[i]))
        /\ \E hunk \in AllHunks : hunk.lines # <<>>
        /\ f.text = TruncatedSection(patch_objs[f.patches[1]])

\* the line of a __new hunk__ block as claimed: the number right-aligned in 4
\* characters, a space, + or a space, the content
ClaimedNewLine(line) ==
    PadLeft(StrOf(line.line_number_new[1]), 4) \o " "
        \o (IF line.prefix = "+" THEN "+" ELSE " ") \o line.content

ClaimedNewBlock(hunk) ==
    JoinLines(<<"__new hunk__">>
                  \o [i \in 1..Len(new_lines(hunk)) |-> ClaimedNewLine(new_lines(hunk)[i])])

\* C10: the __new hunk__ block of every rendered hunk holds each new-visible line
\* with its new-file number right-aligned in a 4-character field, whatever the
\* number, 0 included.
C10_NewLinesNumbered ==
    \A c \in Callers :
        LET f == frame[c]
        IN  Rendering(f) =>
                \A i \in 1..Len(f.parts) :
                    LET patch == PatchValue(patch_objs, hunk_objs, f.patches[i])
                    IN  (HasContentSection(patch) /\ ~IsTruncated(f.parts[i])) =>
                            \A k \in 1..Len(patch.hunks) :
                                Contains(f.parts[i],
                                         "\n" \o ClaimedNewBlock(patch.hunks[k]) \o "\n")

\* the lines of a rendered section, and its blocks: the runs of lines after the
\* header and its blank line, each closed by an empty line
RECURSIVE BlocksOf(_, _)
BlocksOf(lines, open) ==
    IF lines = <<>> THEN <<>>
    ELSE IF Head(lines) = "" THEN <<open>> \o BlocksOf(Tail(lines), <<>>)
    ELSE BlocksOf(Tail(lines), Append(open, Head(lines)))

RenderedBlocks(part) ==
    LET lines == SplitLines(part) IN BlocksOf(SubSeq(lines, 4, Len(lines)), <<>>)

Positions(block, marker) == {i \in 1..Len(block) : block[i] = marker}

NewVisible(hunk) ==
    Cardinality({i \in 1..Len(hunk.lines) : hunk.lines[i].prefix \in {"+", " "}})

\* the block of a hunk: the marker, __new hunk__ once, right after it, and
\* __old hunk__ once, after the new-visible lines, iff the hunk has a deletion
BlockOfHunk(block, hunk) ==
    /\ Len(block) >= 2
    /\ StartsWith(block[1], "@@ ... @@")
    /\ Positions(block, "__new hunk__") = {2}
    /\ Positions(block, "__old hunk__") =
           IF HasPrefix(hunk, "-") THEN {3 + NewVisible(hunk)} ELSE {}

\* the parts of call f that are the content section of the patch they stand for
ContentParts(f) ==
    {i \in 1..Len(f.parts) :
        /\ HasContentSection(PatchValue(patch_objs, hunk_objs, f.patches[i]))
        /\ ~IsTruncated(f.parts[i])}

\* C11: every rendered hunk of a non-binary, non-skipped file has one block in
\* the output, holding exactly one __new hunk__ line, right after the @@ ... @@
\* marker, and an __old hunk__ line, after the new block, iff the hunk has at
\* least one Deletion line (so a hunk of 2 additions and 1 deletion has one of
\* each).
C11_HunkBlocks ==
    \A c \in Callers :
        LET f == frame[c]
        IN  Rendering(f) =>
                \A i \in ContentParts(f) :
                    LET patch  == PatchValue(patch_objs, hunk_objs, f.patches[i])
                        blocks == RenderedBlocks(f.parts[i])
                    IN  /\ Len(blocks) = Len(patch.hunks)
                        /\ \A k \in 1..Len(blocks) : BlockOfHunk(blocks[k], patch.hunks[k])

\* a rendered text of a file whose hunk has 2 additions and 1 deletion
C11_Witness ==
    LET f == frame[1]
    IN  /\ f.pc = "rendered"
        /\ \E i \in ContentParts(f) :
               \E hunk \in {hunk_objs[h] : h \in {patch_objs[f.patches[i]].hunks[k] :
                                k \in 1..Len(patch_objs[f.patches[i]].hunks)}} :
                   /\ Len(added_lines(hunk)) = 2
                   /\ Len(removed_lines(hunk)) = 1
                   /\ Contains(f.text, "\n__new hunk__\n")
                   /\ Contains(f.text, "\n__old hunk__\n")

\* the header line of a rendered content section
HeaderLine(part) == SplitLines(part)[2]

\* C12: the header of every non-binary, non-skipped patch carries each
\* annotation that applies: (new file) when is_new_file is set, (deleted) when
\* is_deleted_file is set, (renamed from '<old>') when old_filename is set, also
\* when a rename comes with the new or deleted flag.
C12_HeaderAnnotations ==
    \A c \in Callers :
        LET f == frame[c]
        IN  Rendering(f) =>
                \A i \in ContentParts(f) :
                    LET patch  == patch_objs[f.patches[i]]
                        header == HeaderLine(f.parts[i])
                    IN  /\ StartsWith(header, "## File: '" \o patch.filename \o "'")
                        /\ patch.is_new_file => Contains(header, " (new file)")
                        /\ patch.is_deleted_file => Contains(header, " (deleted)")
                        /\ patch.old_filename # None =>
                               Contains(header, " (renamed from '"
                                                    \o patch.old_filename[1] \o "')")

\* C13: the section of a binary patch, or of a patch whose filename the skip
\* filter matches, is the file name line and the one-line reason ([Binary file -
\* skipped] for binary, otherwise [Auto-generated/Lock file - skipped to save
\* tokens]); it holds no hunk marker and no line of the patch's hunks.
C13_PlaceholderOnly ==
    \A c \in Callers :
        LET f == frame[c]
        IN  Rendering(f) =>
                \A i \in 1..Len(f.parts) :
                    LET patch == patch_objs[f.patches[i]]
                    IN  (patch.is_binary \/ should_skip_file(patch.filename)) =>
                            SplitLines(f.parts[i]) =
                                <<"", "## File: '" \o patch.filename \o "'",
                                  IF patch.is_binary THEN "[Binary file - skipped]"
                                  ELSE "[Auto-generated/Lock file - skipped to save tokens]",
                                  "">>

\* a rendered text with the placeholder of a binary patch that has a hunk with
\* lines, and the placeholder of a binary patch whose name the filter matches
C13_Witness ==
    LET f == frame[1]
    IN  /\ f.pc = "rendered"
        /\ \E i \in 1..Len(f.parts) :
               LET patch == PatchValue(patch_objs, hunk_objs, f.patches[i])
               IN  /\ patch.is_binary
                   /\ should_skip_file(patch.filename) \/
                          \E k \in 1..Len(patch.hunks) : patch.hunks[k].lines # <<>>
                   /\ Contains(f.text, "[Binary file - skipped]")

(***************************************************************************)
(* Properties of get_pr_diff_summary.                                      *)
(***************************************************************************)
\* the recorded lines of the patch behind ref that have the prefix, as
\* <<hunk, line>> positions
LinesWithPrefix(ref, prefix) ==
    UNION {{<<h, k>> : k \in {j \in 1..Len(hunk_objs[patch_objs[ref].hunks[h]].lines) :
                                 hunk_objs[patch_objs[ref].hunks[h]].lines[j].prefix = prefix}} :
              h \in 1..Len(patch_objs[ref].hunks)}

\* the per-file counts of the first n entries, added up
RECURSIVE EntriesTotal(_, _, _)
EntriesTotal(files, field, n) ==
    IF n = 0 THEN 0 ELSE EntriesTotal(files, field, n - 1) + files[n][field]

\* C14: the summary has total_files equal to the number of patches, one entry
\* per patch in input order (none dropped, merged or reordered, also when
\* filenames repeat) with that patch's name, counts and flags, total_additions
\* and total_deletions equal to the sums of the per-file counts, and
\* total_changes = total_additions + total_deletions.
C14_SummaryAggregates ==
    \A c \in Callers :
        LET f == frame[c]
            s == f.summary[1]
        IN  f.pc = "summarized" =>
                /\ s.total_files = Len(f.patches)
                /\ Len(s.files) = Len(f.patches)
                /\ \A i \in 1..Len(f.patches) :
                       /\ s.files[i].filename = patch_objs[f.patches[i]].filename
                       /\ s.files[i].additions = Cardinality(LinesWithPrefix(f.patches[i], "+"))
                       /\ s.files[i].deletions = Cardinality(LinesWithPrefix(f.patches[i], "-"))
                       /\ s.files[i].is_new = patch_objs[f.patches[i]].is_new_file
                       /\ s.files[i].is_deleted = patch_objs[f.patches[i]].is_deleted_file
                       /\ s.files[i].is_binary = patch_objs[f.patches[i]].is_binary
                /\ s.total_additions = EntriesTotal(s.files, "additions", Len(s.files))
                /\ s.total_deletions = EntriesTotal(s.files, "deletions", Len(s.files))
                /\ s.total_changes = s.total_additions + s.total_deletions

\* a summary of three patches, two of them with the same filename, with
\* additions and deletions in more than one file
C14_Witness ==
    LET f == frame[1]
    IN  /\ f.pc = "summarized"
        /\ Len(f.patches) = 3
        /\ patch_objs[f.patches[1]].filename = patch_objs[f.patches[3]].filename
        /\ patch_objs[f.patches[1]].filename # patch_objs[f.patches[2]].filename
        /\ f.summary[1].total_additions > f.summary[1].files[1].additions
        /\ f.summary[1].total_deletions > f.summary[1].files[1].deletions
        /\ f.summary[1].files[1].deletions > 0

(***************************************************************************)
(* Properties of split_diff_for_chunks: what the chunks hold.              *)
(***************************************************************************)
\* C15: the chunks split_diff_for_chunks returns, concatenated in order, are the
\* input list (every patch in exactly one chunk, in input order); no chunk is
\* empty, the last accumulated chunk is among them, and an empty input yields no
\* chunks.
C15_ChunksPartitionInput ==
    \A c \in Callers :
        LET f == frame[c]
        IN  f.pc = "split_done" =>
                /\ Flatten(f.chunks) = f.patches
                /\ \A k \in 1..Len(f.chunks) : f.chunks[k] # <<>>
                /\ f.current_chunk # <<>> => f.chunks[Len(f.chunks)] = f.current_chunk
                /\ f.patches = <<>> => f.chunks = <<>>

\* a split that closed a chunk before the end and returned two chunks or more
C15_Witness ==
    /\ frame[1].pc = "split_done"
    /\ Len(frame[1].chunks) >= 2
    /\ Len(frame[1].patches) > Len(frame[1].chunks)

\* an empty list was split
C15_EmptyWitness == frame[1].pc = "split_done" /\ frame[1].patches = <<>>

(***************************************************************************)
(* Properties of parse_diff: texts without patches, file names, totals.    *)
(***************************************************************************)
\* the text is empty or holds whitespace only
IsWhitespaceOnly(text) == \A i \in 1..Len(text) : CharAt(text, i) \in Whitespace

\* the line reads diff --git a/<old> b/<new>
IsFileHeaderLine(line) ==
    /\ StartsWith(line, "diff --git a/")
    /\ Contains(SubSeq(line, Len("diff --git a/") + 1, Len(line)), " b/")

HoldsNoFileHeader(text) ==
    LET lines == SplitLines(text)
    IN  \A i \in 1..Len(lines) : ~IsFileHeaderLine(lines[i])

\* C16: parse_diff of an empty or whitespace-only text, and of a text that holds
\* no file-header line, ends without an error and returns an empty list.
C16_NothingToParse ==
    \A c \in Callers :
        LET f == frame[c]
        IN  (f.pc \in {"parsed", "raised"}
                 /\ (IsWhitespaceOnly(f.diff_text) \/ HoldsNoFileHeader(f.diff_text))) =>
                /\ f.pc = "parsed"
                /\ f.patches = <<>>

\* a finished parse of a text that holds a mode marker, a hunk header and a
\* content line but no file header
C16_Witness ==
    LET f == frame[1]
    IN  /\ f.pc = "parsed"
        /\ f.patches = <<>>
        /\ HoldsNoFileHeader(f.diff_text)
        /\ \E i \in 1..Len(f.raw_lines) : f.raw_lines[i] \in MarkerLines
        /\ \E i \in 1..Len(f.raw_lines) : f.raw_lines[i] \in HunkHeaderLines

\* a finished parse of a text of spaces, tabs and line ends
C16_WhitespaceWitness ==
    LET f == frame[1]
    IN  /\ f.pc = "parsed"
        /\ f.patches = <<>>
        /\ Len(f.diff_text) >= 2
        /\ IsWhitespaceOnly(f.diff_text)
        /\ Contains(f.diff_text, "\t")

\* the paths of the files the texts are about
Paths == {"f", "o", "n", "y.map", "d b/f"}

\* the file-header line git writes for a file at path old, now at path new
HeaderOf(old, new) == "diff --git a/" \o old \o " b/" \o new

\* the patches a call has opened so far, in the order of their header lines
Opened(f) ==
    IF f.pc = "parse_loop" /\ f.current_patch # NoneRef
    THEN Append(f.patches, f.current_patch) ELSE f.patches

\* the file-header lines the loop has taken so far
HeadersTaken(f) == SelectSeq(SubSeq(f.raw_lines, 1, f.idx - 1), IsFileHeaderLine)

NamedAfter(patch, old, new) ==
    /\ patch.filename = new
    /\ patch.old_filename = IF old # new THEN Some(old) ELSE None

\* C17: every file-header line diff --git a/<old> b/<new> opens one patch, with
\* filename = <new>, and old_filename = <old> if <old> differs from <new> and
\* unset if they are the same.
C17_HeaderNames ==
    \A c \in Callers :
        LET f == frame[c]
        IN  f.pc \in {"parse_loop", "parsed"} =>
                /\ Len(Opened(f)) = Len(HeadersTaken(f))
                /\ \A j \in 1..Len(HeadersTaken(f)) :
                       \A old \in Paths, new \in Paths :
                           HeadersTaken(f)[j] = HeaderOf(old, new) =>
                               NamedAfter(patch_objs[Opened(f)[j]], old, new)

\* C18: the diff that modifies one file by one hunk @@ -5,3 +5,4 @@ of 2 additions
\* and 1 deletion parses into one FilePatch of one hunk with total_additions = 2,
\* total_deletions = 1 and total_changes = 3; and of every patch parsed,
\* total_additions and total_deletions are the numbers of Addition and Deletion
\* lines recorded in its hunks.
C18_PatchTotals ==
    \A c \in Callers :
        LET f == frame[c]
        IN  f.pc = "parsed" =>
                /\ \A i \in 1..Len(f.patches) :
                       LET patch == PatchValue(patch_objs, hunk_objs, f.patches[i])
                       IN  /\ total_additions(patch) =
                                  Cardinality(LinesWithPrefix(f.patches[i], "+"))
                           /\ total_deletions(patch) =
                                  Cardinality(LinesWithPrefix(f.patches[i], "-"))
                /\ f.diff_text = ModifiedFileText =>
                       /\ Len(f.patches) = 1
                       /\ Len(patch_objs[f.patches[1]].hunks) = 1
                       /\ hunk_objs[patch_objs[f.patches[1]].hunks[1]].header = "@@ -5,3 +5,4 @@"
                       /\ total_additions(PatchValue(patch_objs, hunk_objs, f.patches[1])) = 2
                       /\ total_deletions(PatchValue(patch_objs, hunk_objs, f.patches[1])) = 1
                       /\ total_changes(PatchValue(patch_objs, hunk_objs, f.patches[1])) = 3

\* the finished parse of the modified file
C18_Witness ==
    /\ frame[1].pc = "parsed"
    /\ frame[1].diff_text = ModifiedFileText
    /\ Len(frame[1].patches) = 1

RECURSIVE ParseRest(_, _, _)
ParseRest(f, P, H) ==
    IF f.pc # "parse_loop" \/ f.idx > Len(f.raw_lines) THEN State(f, P, H)
    ELSE LET s == ParseStep(f, P, H, f.raw_lines[f.idx]) IN ParseRest(s.f, s.P, s.H)

\* the patches parse_diff(diff_text) returns, as values
ParsedAlone(diff_text) ==
    IF IsBlankText(diff_text) THEN <<>>
    ELSE LET begun == [ParseCall(diff_text) EXCEPT
                          !.pc = "parse_loop", !.raw_lines = SplitLines(diff_text), !.idx = 1]
             s     == ParseRest(begun, <<>>, <<>>)
             refs  == IF s.f.current_patch # NoneRef
                      THEN Append(s.f.patches, s.f.current_patch) ELSE s.f.patches
         IN  PatchValues(s.P, s.H, refs)

RECURSIVE RenderRest(_, _)
RenderRest(f, values) ==
    IF f.pc # "render_loop" \/ f.idx > Len(values) THEN f
    ELSE RenderRest(RenderStep(f, values[f.idx]), values)

\* the text format_diff_for_prompt(values, max_tokens, chars_per_token) returns
RenderedAlone(values, max_tokens, chars_per_token) ==
    JoinLines(RenderRest(RenderCall(IdleFrame, values, max_tokens, chars_per_token),
                         values).parts)

RECURSIVE SplitRest(_, _)
SplitRest(f, values) ==
    IF f.idx > Len(values) THEN f
    ELSE SplitRest(SplitStep(f, f.idx, values[f.idx]), values)

\* the chunks split_diff_for_chunks(values, limit) returns, as lists of values
SplitAlone(values, limit) ==
    LET f      == SplitRest(SplitCall(IdleFrame, values, limit), values)
        chunks == IF f.current_chunk # <<>> THEN Append(f.chunks, f.current_chunk)
                  ELSE f.chunks
    IN  [k \in 1..Len(chunks) |-> [j \in 1..Len(chunks[k]) |-> values[chunks[k][j]]]]

\* the chunks of a call as lists of values
ChunkValues(chunks) ==
    [k \in 1..Len(chunks) |-> PatchValues(patch_objs, hunk_objs, chunks[k])]

\* what a call returned is what the same call returns alone
ReturnsAsAlone(f) ==
    LET alone == ParsedAlone(f.diff_text)
    IN  CASE f.pc = "parsed" ->
                 PatchValues(patch_objs, hunk_objs, f.patches) = alone
          [] f.pc = "rendered" ->
                 f.text = RenderedAlone(alone, f.max_tokens, f.chars_per_token)
          [] f.pc = "summarized" ->
                 f.summary = Some(get_pr_diff_summary(alone))
          [] f.pc = "split_done" ->
                 ChunkValues(f.chunks) = SplitAlone(alone, f.max_tokens_per_chunk)
          [] OTHER -> TRUE

\* the objects a call has made so far, as values: its patches with their hunks
OwnedBy(f, P, H) ==
    PatchValues(P, H, IF f.pc = "parse_loop" /\ f.current_patch # NoneRef
                      THEN Append(f.patches, f.current_patch) ELSE f.patches)

\* C20: with the steps of the callers' calls of parse, render, summarize and
\* split interleaved in any order, no call raises, each call returns what it
\* returns when run alone, and a step of one call changes neither the locals of
\* another call nor the patches and hunks another call has made.
C20_CallsIndependent ==
    /\ [](\A c \in Callers : frame[c].pc # "raised" /\ ReturnsAsAlone(frame[c]))
    /\ [][\A c \in Callers :
              frame'[c] # frame[c] =>
                  \A d \in Callers \ {c} :
                      /\ frame'[d] = frame[d]
                      /\ OwnedBy(frame[d], patch_objs', hunk_objs')
                             = OwnedBy(frame[d], patch_objs, hunk_objs)]_vars

\* both calls returned, one a rendered text and one chunks, and the patches of
\* the first were made with a patch of the second made in between
C20_Witness ==
    /\ frame[1].pc = "rendered"
    /\ frame[2].pc = "split_done"
    /\ Len(frame[1].patches) = 2
    /\ frame[1].patches[2] > frame[1].patches[1] + 1
    /\ Len(frame[2].chunks) >= 2
    /\ \E h \in 1..(Len(hunk_objs) - 1) :
           hunk_objs[h].lines # <<>> /\ hunk_objs[h + 1].lines # <<>>

(***************************************************************************)
(* Properties of _should_skip_file.                                        *)
(***************************************************************************)
\* the lock-file names and extensions of the table, in lower case
SkipSuffixes ==
    {"package-lock.json", "yarn.lock", "pnpm-lock.yaml", "go.sum", "cargo.lock",
     "composer.lock", "gemfile.lock", "pipfile.lock", "poetry.lock", ".min.js",
     ".min.css", ".map", ".svg", ".png", ".jpg", ".jpeg", ".gif", ".ico", ".pdf",
     ".ipynb"}

\* the path, letter case ignored, ends with a lock-file name or extension, or
\* holds the snapshot directory marker anywhere
ClaimedSkip(path) ==
    LET lowered == Lower(path)
    IN  \/ \E suffix \in SkipSuffixes : EndsWith(lowered, suffix)
        \/ Contains(lowered, "__snapshots__/")

\* C21: should_skip is true for pnpm-lock.yaml, bundle.min.js and diagram.svg and
\* false for src/app.py; letter case is ignored, the lock-file names and the
\* extensions match at the end of the path only, and __snapshots__/ matches
\* anywhere in the path.
C21_SkipFilter ==
    \A c \in Callers :
        LET f == frame[c]
        IN  f.pc = "skip_done" =>
                /\ f.skipped = Some(ClaimedSkip(f.filename))
                /\ f.filename \in {"pnpm-lock.yaml", "bundle.min.js", "diagram.svg"}
                       => f.skipped = Some(TRUE)
                /\ f.filename = "src/app.py" => f.skipped = Some(FALSE)
                /\ f.filename \in {"diagram.svg.txt", "src/pnpm-lock.yaml.bak", "src/svg"}
                       => f.skipped = Some(FALSE)
                /\ f.filename \in {"PNPM-LOCK.YAML", "src/diagram.SVG",
                                   "a/__SNAPSHOTS__/b/app.py", "__snapshots__/app.py"}
                       => f.skipped = Some(TRUE)

\* no pattern was found in a name that holds an extension of the table before
\* its end
C21_Witness ==
    /\ frame[1].pc = "skip_done"
    /\ frame[1].filename = "src/diagram.svg.txt"
    /\ frame[1].skipped = Some(FALSE)
    /\ frame[1].idx > Len(skip_patterns)

\* a name in capitals was found by a pattern in lower case
C21_CaseWitness ==
    /\ frame[1].pc = "skip_done"
    /\ frame[1].filename = "PNPM-LOCK.YAML"
    /\ frame[1].skipped = Some(TRUE)

(***************************************************************************)
(* Properties of parse_diff: well-formed diffs.                            *)
(***************************************************************************)
IsHunkHeaderLine(line) == HunkHeaderMatch(line) # NoMatch

\* the lines that follow line i up to the next file or hunk header
RECURSIVE BodyAfter(_, _)
BodyAfter(lines, i) ==
    IF i + 1 > Len(lines) \/ IsFileHeaderLine(lines[i + 1]) \/ IsHunkHeaderLine(lines[i + 1])
    THEN <<>>
    ELSE <<lines[i + 1]>> \o BodyAfter(lines, i + 1)

StartingWith(lines, markers) ==
    Cardinality({i \in 1..Len(lines) : Len(lines[i]) >= 1 /\ CharAt(lines[i], 1) \in markers})

\* every hunk header is followed by a body of old_count lines of the old file
\* (- or space) and new_count lines of the new file (+ or space) and no other
\* line
WellFormedLines(lines) ==
    \A i \in 1..Len(lines) :
        IsHunkHeaderLine(lines[i]) =>
            LET m    == HunkHeaderMatch(lines[i])
                body == BodyAfter(lines, i)
            IN  /\ StartingWith(body, {"+", "-", " "}) = Len(body)
                /\ StartingWith(body, {"-", " "}) = CountOf(m[2])
                /\ StartingWith(body, {"+", " "}) = CountOf(m[4])

\* the lines of a text, a line terminator at its end ending the last line
LinesOfText(text) ==
    IF EndsWith(text, "\n") THEN SplitLines(SubSeq(text, 1, Len(text) - 1))
    ELSE SplitLines(text)

CountsAsDeclared(hunk) ==
    /\ Len(new_lines(hunk)) = hunk.new_count
    /\ Len(old_lines(hunk)) = hunk.old_count

\* C22: of a well-formed diff, where the body of each hunk is exactly old_count
\* old-visible and new_count new-visible lines, every parsed hunk has
\* len(new_lines) = new_count and len(old_lines) = old_count, also when the text
\* ends with a line terminator.
C22_CountsOfWellFormed ==
    \A c \in Callers :
        LET f == frame[c]
        IN  (f.pc = "parsed" /\ WellFormedLines(LinesOfText(f.diff_text))) =>
                \A i \in 1..Len(f.patches) :
                    \A k \in 1..Len(patch_objs[f.patches[i]].hunks) :
                        CountsAsDeclared(hunk_objs[patch_objs[f.patches[i]].hunks[k]])

(***************************************************************************)
(* Properties of parse_diff: what each kind of line does to the state.     *)
(***************************************************************************)
\* caller c takes a step of its loop, for the line at idx
TakesLine(c) ==
    /\ frame[c].pc = "parse_loop"
    /\ frame[c].idx <= Len(frame[c].raw_lines)
    /\ frame'[c] # frame[c]

\* the line the loop of call f is at
LineAt(f) == f.raw_lines[f.idx]

\* the call leaves its loop and returns
Returns(c) == frame[c].pc = "parse_loop" /\ frame'[c].pc = "parsed"

\* a file header appends the open patch, if any, to the output and opens a
\* patch that no list holds yet
HeaderOpensPatch(f, g) ==
    /\ g.patches = IF f.current_patch # NoneRef
                   THEN Append(f.patches, f.current_patch) ELSE f.patches
    /\ g.current_patch = Len(patch_objs) + 1
    /\ Len(patch_objs') = Len(patch_objs) + 1
    /\ patch_objs'[g.current_patch].hunks = <<>>

\* C23: parse_diff returns one FilePatch per file-header line of the text, in
\* the order of those lines: each header appends the patch open before it to the
\* output and opens a new one, no other line opens or appends a patch, the
\* patch open at the end is appended, and headers that name the same file give
\* separate patches.
C23_OnePatchPerHeader ==
    /\ [](\A c \in Callers :
              LET f       == frame[c]
                  headers == SelectSeq(SplitLines(f.diff_text), IsFileHeaderLine)
              IN  f.pc = "parsed" =>
                      /\ Len(f.patches) = Len(headers)
                      /\ \A i \in 1..Len(f.patches) :
                             /\ EndsWith(headers[i], " b/" \o patch_objs[f.patches[i]].filename)
                             /\ \A j \in 1..Len(f.patches) :
                                    f.patches[i] = f.patches[j] => i = j)
    /\ [][\A c \in Callers :
              /\ TakesLine(c) =>
                     IF IsFileHeaderLine(LineAt(frame[c]))
                     THEN HeaderOpensPatch(frame[c], frame'[c])
                     ELSE /\ frame'[c].patches = frame[c].patches
                          /\ frame'[c].current_patch = frame[c].current_patch
                          /\ Len(patch_objs') = Len(patch_objs)
              /\ Returns(c) =>
                     frame'[c].patches = Opened(frame[c])]_vars

\* three patches returned, the first and the last from headers that name the
\* same file
C23_Witness ==
    LET f == frame[1]
    IN  /\ f.pc = "parsed"
        /\ Len(f.patches) = 3
        /\ patch_objs[f.patches[1]].filename = patch_objs[f.patches[3]].filename
        /\ patch_objs[f.patches[1]].hunks # <<>>
        /\ patch_objs[f.patches[3]].hunks # <<>>

\* a + line, a - line, a line that starts with a space, or an empty line
IsContentLine(line) == line = "" \/ CharAt(line, 1) \in {"+", "-", " "}

\* among the first n lines there is a hunk header after a file header, with no
\* file header after it
HunkHeaderSeen(lines, n) ==
    \E h \in 1..n :
        /\ IsHunkHeaderLine(lines[h])
        /\ \E p \in 1..(h - 1) : IsFileHeaderLine(lines[p])
        /\ \A q \in (h + 1)..n : ~IsFileHeaderLine(lines[q])

\* the step records no HunkLine: every hunk keeps its lines
RecordsNoLine ==
    /\ Len(hunk_objs') = Len(hunk_objs)
    /\ \A h \in 1..Len(hunk_objs) : hunk_objs'[h].lines = hunk_objs[h].lines

\* C24: a content line (+, -, space or empty) met when no hunk header has been
\* seen since the most recent file header, or before the first file header,
\* creates no HunkLine in any patch, the last hunk of the previous file
\* included.
C24_NoLineWithoutHunk ==
    [][\A c \in Callers :
           (/\ TakesLine(c)
            /\ IsContentLine(LineAt(frame[c]))
            /\ ~HunkHeaderSeen(frame[c].raw_lines, frame[c].idx - 1))
               => RecordsNoLine]_vars

\* the parse of the text with stray content lines returned: two patches, one
\* hunk, one line
C24_Witness ==
    LET f == frame[1]
    IN  /\ f.pc = "parsed"
        /\ f.diff_text = StrayLinesText
        /\ Len(f.patches) = 2
        /\ Len(hunk_objs) = 1
        /\ Len(hunk_objs[1].lines) = 1

\* first position >= i where sub occurs in s, 0 when there is none
RECURSIVE Find(_, _, _)
Find(s, sub, i) ==
    IF i + Len(sub) - 1 > Len(s) THEN 0
    ELSE IF SubSeq(s, i, i + Len(sub) - 1) = sub THEN i
    ELSE Find(s, sub, i + 1)

\* a range `start` or `start,count` as <<start, count>>, the count 1 if omitted
Range(r) ==
    LET k == Find(r, ",", 1)
    IN  IF k = 0 THEN <<IntOf(r), 1>>
        ELSE <<IntOf(SubSeq(r, 1, k - 1)), IntOf(SubSeq(r, k + 1, Len(r)))>>

\* what a hunk header `@@ -<old> +<new> @@...` declares: <<old range, new range>>
Declared(line) ==
    LET p == Find(line, " +", 5)
        q == Find(line, " @@", p)
    IN  <<Range(SubSeq(line, 5, p - 1)), Range(SubSeq(line, p + 2, q - 1))>>

\* the line reaches the hunk-header rule: it has the shape of a hunk header and
\* none of the earlier rules (file header, mode markers, metadata) takes it
TakenAsHunkHeader(line) ==
    IsHunkHeaderLine(line) /\ ~Contains(line, "Binary files")

\* a file header is among the first n lines
PatchOpened(lines, n) == \E p \in 1..n : IsFileHeaderLine(lines[p])

\* the step appends one hunk, with no lines, to the hunk list of patch p, and
\* changes no other hunk and no other patch
AppendsOneHunk(p) ==
    /\ Len(hunk_objs') = Len(hunk_objs) + 1
    /\ \A h \in 1..Len(hunk_objs) : hunk_objs'[h] = hunk_objs[h]
    /\ hunk_objs'[Len(hunk_objs')].lines = <<>>
    /\ Len(patch_objs') = Len(patch_objs)
    /\ patch_objs'[p] =
           [patch_objs[p] EXCEPT !.hunks = Append(@, Len(hunk_objs'))]
    /\ \A o \in 1..Len(patch_objs) : o # p => patch_objs'[o] = patch_objs[o]

\* C25: each hunk-header line met while a patch is open appends exactly one
\* new DiffHunk, with no lines yet, to the end of the hunk list of the current
\* patch; its starts and counts are the declared ones, a count being 1 when
\* omitted; old_line_no and new_line_no become the declared old_start and
\* new_start whatever they were before.
C25_HunkHeaderOpensHunk ==
    [][\A c \in Callers :
           LET f == frame[c]
               g == frame'[c]
           IN  (/\ TakesLine(c)
                /\ PatchOpened(f.raw_lines, f.idx - 1)
                /\ TakenAsHunkHeader(LineAt(f)))
                   => LET d    == Declared(LineAt(f))
                          hunk == hunk_objs'[Len(hunk_objs')]
                      IN  /\ AppendsOneHunk(f.current_patch)
                          /\ g.current_hunk = Len(hunk_objs')
                          /\ g.current_patch = f.current_patch
                          /\ hunk.header = LineAt(f)
                          /\ hunk.old_start = d[1][1]
                          /\ hunk.old_count = d[1][2]
                          /\ hunk.new_start = d[2][1]
                          /\ hunk.new_count = d[2][2]
                          /\ g.old_line_no = d[1][1]
                          /\ g.new_line_no = d[2][1]]_vars

\* the parse of the text with three hunks returned: the second header, with
\* both counts omitted or not, reset the counters the first hunk had advanced,
\* and the last header left a hunk with no lines
C25_Witness ==
    LET f == frame[1]
    IN  /\ f.pc = "parsed"
        /\ f.diff_text = ThreeHunksText
        /\ Len(f.patches) = 1
        /\ Len(patch_objs[f.patches[1]].hunks) = 3
        /\ hunk_objs[2].old_count = 1
        /\ hunk_objs[2].new_count = 2
        /\ hunk_objs[1].lines[1].line_number_new = Some(10)
        /\ hunk_objs[2].lines[1].line_number_new = Some(0)
        /\ hunk_objs[3].lines = <<>>

\* a line that starts with `---`, `+++` or `index `
IsMetadataLine(line) ==
    \E p \in {"---", "+++", "index "} :
        Len(line) >= Len(p) /\ SubSeq(line, 1, Len(p)) = p

\* the step leaves the open patch, the open hunk and both counters as they were
KeepsPosition(f, g) ==
    /\ g.current_patch = f.current_patch
    /\ g.current_hunk = f.current_hunk
    /\ g.new_line_no = f.new_line_no
    /\ g.old_line_no = f.old_line_no
    /\ g.patches = f.patches

\* the number of recorded lines with the prefix in the patch behind ref, in
\* the heap P, H
CountWithPrefix(P, H, ref, prefix) ==
    Cardinality(UNION {{<<h, k>> : k \in {j \in 1..Len(H[P[ref].hunks[h]].lines) :
                                     H[P[ref].hunks[h]].lines[j].prefix = prefix}} :
                          h \in 1..Len(P[ref].hunks)})

\* C26: a line beginning with `---`, `+++` or `index ` met while a patch is
\* open, a hunk being open or not, records no HunkLine, changes neither line
\* counter and leaves the additions and deletions of the patch unchanged.
C26_MetadataDropped ==
    [][\A c \in Callers :
           LET f == frame[c]
               g == frame'[c]
           IN  (/\ TakesLine(c)
                /\ PatchOpened(f.raw_lines, f.idx - 1)
                /\ IsMetadataLine(LineAt(f)))
                   => /\ RecordsNoLine
                      /\ KeepsPosition(f, g)
                      /\ patch_objs'[f.current_patch].hunks
                             = patch_objs[f.current_patch].hunks
                      /\ \A prefix \in {"+", "-"} :
                             CountWithPrefix(patch_objs', hunk_objs',
                                             g.current_patch, prefix)
                                 = CountWithPrefix(patch_objs, hunk_objs,
                                                   f.current_patch, prefix)]_vars

\* the parse of the text with dashed body lines returned: the hunk holds the
\* two removed lines and the added line around the three dropped ones
C26_Witness ==
    LET f == frame[1]
    IN  /\ f.pc = "parsed"
        /\ f.diff_text = DashedBodyText
        /\ Len(hunk_objs) = 1
        /\ Len(hunk_objs[1].lines) = 3
        /\ hunk_objs[1].lines[2].line_number_old = Some(6)
        /\ total_deletions(PatchValue(patch_objs, hunk_objs, f.patches[1])) = 2
        /\ total_additions(PatchValue(patch_objs, hunk_objs, f.patches[1])) = 1

\* the flag a mode-marker line sets, "" for a line that is no marker
FlagOf(line) ==
    IF StartsWith(line, "new file mode") THEN "is_new_file"
    ELSE IF StartsWith(line, "deleted file mode") THEN "is_deleted_file"
    ELSE IF Contains(line, "Binary files") THEN "is_binary"
    ELSE ""

\* a line of no recognised shape: no header, marker, metadata or content line
IsUnrecognised(line) ==
    /\ ~IsFileHeaderLine(line)
    /\ FlagOf(line) = ""
    /\ ~IsMetadataLine(line)
    /\ ~IsHunkHeaderLine(line)
    /\ ~IsContentLine(line)

\* the lines of a hunk are numbered without a gap from its starts
NoGapInNumbers(hunk) ==
    /\ \A i \in 1..Len(new_lines(hunk)) :
           new_lines(hunk)[i].line_number_new = Some(hunk.new_start + i - 1)
    /\ \A i \in 1..Len(old_lines(hunk)) :
           old_lines(hunk)[i].line_number_old = Some(hunk.old_start + i - 1)

\* C27: a mode-marker line (`new file mode`, `deleted file mode`, a line that
\* holds `Binary files`) or a line of no recognised shape, met while a patch
\* is open, leaves the current hunk, every hunk list and both counters
\* unchanged and appends no HunkLine; a marker sets the matching flag of the
\* open patch and changes nothing else; so the lines of every hunk stay
\* numbered without a gap.
C27_MarkersKeepHunk ==
    /\ [][\A c \in Callers :
              LET f == frame[c]
                  g == frame'[c]
                  line == LineAt(f)
              IN  (/\ TakesLine(c)
                   /\ PatchOpened(f.raw_lines, f.idx - 1)
                   /\ ~IsFileHeaderLine(line)
                   /\ (FlagOf(line) # "" \/ IsUnrecognised(line)))
                      => /\ hunk_objs' = hunk_objs
                         /\ KeepsPosition(f, g)
                         /\ patch_objs' =
                                IF FlagOf(line) = "" THEN patch_objs
                                ELSE [patch_objs EXCEPT
                                         ![f.current_patch][FlagOf(line)] = TRUE]]_vars
    /\ [](\A h \in 1..Len(hunk_objs) : NoGapInNumbers(hunk_objs[h]))

\* the parse of the text with three hunks returned: the line holding `Binary
\* files` set the flag between the two added lines of the second hunk, which
\* are numbered 0 and 1
C27_Witness ==
    LET f == frame[1]
    IN  /\ f.pc = "parsed"
        /\ f.diff_text = ThreeHunksText
        /\ patch_objs[f.patches[1]].is_binary
        /\ ~patch_objs[f.patches[1]].is_new_file
        /\ Len(hunk_objs[2].lines) = 2
        /\ hunk_objs[2].lines[1].line_number_new = Some(0)
        /\ hunk_objs[2].lines[2].line_number_new = Some(1)

\* a parse returned a hunk with a line of no recognised shape between two
\* content lines
C27_UnrecognisedWitness ==
    LET f == frame[1]
    IN  /\ f.pc = "parsed"
        /\ Len(f.raw_lines) = 5
        /\ IsContentLine(f.raw_lines[3])
        /\ f.raw_lines[4] = "\\ No newline"
        /\ f.raw_lines[5] = "-b"
        /\ Len(hunk_objs) = 1
        /\ Len(hunk_objs[1].lines) = 2

\* references held by a sequence of references
RefsIn(refs) == {refs[i] : i \in 1..Len(refs)}

\* the hunk references of the patches already in the output list of frame f
OutputHunks(f) == UNION {RefsIn(patch_objs[r].hunks) : r \in RefsIn(f.patches)}

\* while the loop runs: an open hunk is the last hunk of the open patch, and
\* the open patch is not in the output list
OpenHunkIsLast(f) ==
    /\ f.current_hunk # NoneRef =>
           /\ f.current_patch # NoneRef
           /\ patch_objs[f.current_patch].hunks # <<>>
           /\ LET hunks == patch_objs[f.current_patch].hunks
              IN  hunks[Len(hunks)] = f.current_hunk
    /\ f.current_patch # NoneRef => f.current_patch \notin RefsIn(f.patches)

\* C29: at every step of the parse, an open hunk implies an open patch whose
\* last hunk it is; the open patch is not yet in the output list; a step that
\* changes the lines of a hunk appends one HunkLine to the open hunk and to no
\* other, so the patches in the output list and their hunks never change.
C29_OpenHunkDiscipline ==
    /\ [](\A c \in Callers :
              frame[c].pc = "parse_loop" => OpenHunkIsLast(frame[c]))
    /\ [][\A c \in Callers :
              LET f == frame[c]
              IN  TakesLine(c) =>
                      /\ \A h \in 1..Len(hunk_objs) :
                             hunk_objs'[h] # hunk_objs[h] =>
                                 /\ h = f.current_hunk
                                 /\ Len(hunk_objs'[h].lines)
                                        = Len(hunk_objs[h].lines) + 1
                                 /\ hunk_objs'[h] =
                                        [hunk_objs[h] EXCEPT !.lines =
                                            Append(@, hunk_objs'[h].lines[Len(hunk_objs'[h].lines)])]
                      /\ \A r \in RefsIn(f.patches) :
                             patch_objs'[r] = patch_objs[r]
                      /\ \A h \in OutputHunks(f) :
                             hunk_objs'[h] = hunk_objs[h]]_vars

\* the loop is at a file after the first: the output list holds a patch whose
\* hunk has lines, and the hunk open now has a line of its own
C29_Witness ==
    LET f == frame[1]
    IN  /\ f.pc = "parse_loop"
        /\ Len(f.patches) >= 1
        /\ \E h \in OutputHunks(f) : Len(hunk_objs[h].lines) >= 2
        /\ f.current_hunk # NoneRef
        /\ f.current_hunk \notin OutputHunks(f)
        /\ Len(hunk_objs[f.current_hunk].lines) >= 1

\* the section at position i is that of the i-th input patch
SectionOfPatch(f, i) ==
    StartsWith(f.parts[i], "\n## File: '" \o patch_objs[f.patches[i]].filename \o "'")

\* C28: the renderer returns one `## File:` section per patch, in input order:
\* as many sections as patches when no section is the truncation placeholder,
\* and otherwise sections for the patches up to the truncated one only, the
\* placeholder being the last; the text returned holds `## File:` once per
\* section.
C28_OneSectionPerPatch ==
    \A c \in Callers :
        LET f == frame[c]
            n == Len(f.parts)
        IN  f.pc = "rendered" =>
                /\ n <= Len(f.patches)
                /\ \A i \in 1..n : SectionOfPatch(f, i)
                /\ \A i \in 1..(n - 1) : ~IsTruncated(f.parts[i])
                /\ IF n >= 1 /\ IsTruncated(f.parts[n])
                   THEN f.parts[n] = TruncatedSection(patch_objs[f.patches[n]])
                   ELSE n = Len(f.patches)
                /\ Occurrences(f.text, "## File: '") = n

\* a render without truncation returned a content section, a binary placeholder
\* and a skip placeholder
C28_Witness ==
    LET f == frame[1]
    IN  /\ f.pc = "rendered"
        /\ Len(f.patches) = 3
        /\ Len(f.parts) = 3
        /\ \E i \in 1..3 : EndsWith(f.parts[i], "\n[Binary file - skipped]\n")
        /\ \E i \in 1..3 : EndsWith(f.parts[i], "skipped to save tokens]\n")
        /\ \E i \in 1..3 : Contains(f.parts[i], "__new hunk__")

\* a render truncated at the second of three patches returned two sections
C28_TruncatedWitness ==
    LET f == frame[1]
    IN  /\ f.pc = "rendered"
        /\ Len(f.patches) = 3
        /\ Len(f.parts) = 2
        /\ ~IsTruncated(f.parts[1])
        /\ IsTruncated(f.parts[2])

\* the lengths of the first n sections, added up
RECURSIVE SumLen(_, _)
SumLen(parts, n) == IF n = 0 THEN 0 ELSE SumLen(parts, n - 1) + Len(parts[n])

\* the section is one of the three placeholders
IsPlaceholderSection(part) ==
    \E reason \in {"Binary file - skipped",
                   "Auto-generated/Lock file - skipped to save tokens",
                   "Content truncated - file too large"} :
        EndsWith(part, "'\n[" \o reason \o "]\n")

\* C30: while the loop runs the running total is the sum of the lengths of the
\* sections appended so far, placeholders of binary and skipped files
\* included; a step that appends a hunk-content section leaves the total,
\* that section included, at most max_chars; a step that appends the
\* truncation placeholder counts the section that did not fit, not the
\* placeholder; and the newlines that join the sections in the text returned
\* are not in the total.
C30_TotalWithinBudget ==
    /\ [](\A c \in Callers :
              LET f == frame[c]
              IN  /\ f.pc = "render_loop" =>
                      f.total_chars = SumLen(f.parts, Len(f.parts))
                  /\ (f.pc = "rendered" /\ f.parts # <<>>
                          /\ ~IsTruncated(f.parts[Len(f.parts)])) =>
                      Len(f.text) = f.total_chars + (Len(f.parts) - 1))
    /\ [][\A c \in Callers :
              LET f == frame[c]
                  g == frame'[c]
                  n == Len(g.parts)
              IN  (f.pc = "render_loop" /\ Len(g.parts) = Len(f.parts) + 1) =>
                      /\ ~IsPlaceholderSection(g.parts[n]) =>
                             /\ g.total_chars = SumLen(g.parts, n)
                             /\ g.total_chars <= g.max_chars
                      /\ IsTruncated(g.parts[n]) =>
                             /\ f.total_chars = SumLen(f.parts, n - 1)
                             /\ g.total_chars > g.max_chars
                             /\ g.total_chars
                                    = f.total_chars + Len(FileSection(PatchAt(f)))]_vars

\* with a budget of 17 characters the section of a file without hunks, 14
\* characters, was appended and the next file was truncated
C30_Witness ==
    LET f == frame[1]
    IN  /\ f.pc = "rendered"
        /\ f.max_chars = 17
        /\ Len(f.parts) = 2
        /\ Len(f.parts[1]) = 14
        /\ ~IsPlaceholderSection(f.parts[1])
        /\ IsTruncated(f.parts[2])

\* a content section was appended after a binary placeholder, both counted
C30_PlaceholderWitness ==
    LET f == frame[1]
    IN  /\ f.pc = "render_loop"
        /\ Len(f.parts) = 2
        /\ EndsWith(f.parts[1], "\n[Binary file - skipped]\n")
        /\ Contains(f.parts[2], "__new hunk__")
        /\ f.total_chars = Len(f.parts[1]) + Len(f.parts[2])

====
